---------------------------- MODULE Spec2Model ----------------------------
(***************************************************************************)
(* Model of the rooted-elegance-theme storefront utilities:                *)
(*   - the plant-name matcher of scripts/populate-zones.js                 *)
(*     (extractPlantName, lookupZones),                                    *)
(*   - the ZIP-prefix zone resolver (getZoneFromZip, hardcoded and lazily  *)
(*     loaded variants),                                                   *)
(*   - the metafield sync driver and the audit driver (main loops),        *)
(*   - the zone-selector widget and the predictive search drawer,          *)
(*   - the zone lookup test suite (runTests),                              *)
(*   - the shop-by-zone page (ShopByZone) and the local storage it shares  *)
(*     with the zone selector.                                             *)
(*                                                                         *)
(* A JavaScript string is a sequence of one-character strings, so that     *)
(* length, substring search and the suffix regular expressions are         *)
(* computed character by character.  An optional value (null / undefined)  *)
(* is <<>> when absent and <<v>> when present.                             *)
(***************************************************************************)
EXTENDS Integers, Sequences, FiniteSets, TLC

VARIABLES
  \* ---- matcher (extractPlantName / lookupZones applied to one title)
  mTitle,       \* product.title
  mPlants,      \* plantDatabase.plants, in Object.keys order
  mPc,          \* "title" -> "extracted" -> "looked" -> "again"
  mPlantName,   \* extractPlantName(title)
  mLookup,      \* lookupZones(plantName): <<>> is null
  mAgain,       \* extractPlantName(extractPlantName(title))
  \* ---- zone resolver (zone-selector.js)
  zAsset,       \* what the prefix-table script does when it is injected
  zipToZoneData,   \* module variable: <<>> is null, <<table>> once loaded
  zipDataPromise,  \* "null" | "pending" | "resolved" | "rejected"
  zInjected,    \* number of <script> elements appended to document.head
  zCalls,       \* the getZoneFromZip calls made so far
  \* ---- sync / audit driver (populate-zones.js, audit-zones.js)
  driver,       \* "sync" | "audit"
  env,          \* which credential environment variables are set
  CONFIG,       \* the command-line flags
  catalog,      \* the products the shop holds (server side)
  served,       \* how many catalog products earlier pages returned
  pc,           \* position of main()
  products,     \* fetchAllProducts' accumulator, then main's list
  idx,          \* index of the product the loop is at (1-based)
  results,      \* main's results accumulator
  requests,     \* every admin-API request issued, in order
  pending,      \* the write of the current product awaiting its response
  stderr,       \* what validateConfig / the fatal handler printed
  report,       \* zone-update-report.json: <<>> until written
  exitCode,     \* <<>> while running, <<code>> once the process has ended
  clock,        \* the time the run has spent in its rate-limit delays (ms)
  \* ---- analyzeZoneFormat applied to one zones value (audit-zones.js)
  aPc,          \* "zones" -> "analyzed"
  aZones,       \* product.existingZones: <<>> is null
  aFormat,      \* analyzeZoneFormat(existingZones)
  aNeeds,       \* needsNormalization(existingZones): <<>> until evaluated
  aNormalized,  \* normalizeZoneFormat(existingZones): <<>> until evaluated
  aAgain,       \* needsNormalization of the normalized list, on the next run
  \* ---- zone-selector widget (initZoneSelector of zone-selector.js)
  wValue,       \* input.value of the ZIP field
  wStorage,     \* localStorage entry of the saved zone: <<>> when absent
  wThrows,      \* whether localStorage.setItem throws in this browser
  wError,       \* the error message shown: <<>> when hidden
  wWrites,      \* every saveZone that reached localStorage, in order
  wEvents,      \* every 'zone:changed' event dispatched, in order
  wSubs,        \* the handleZipSubmit calls made so far
  \* ---- predictive search drawer (PredictiveSearch of predictive-search.js)
  sValue,       \* input.value of the search field
  isOpen,       \* this.isOpen
  debounceTimer,   \* this.debounceTimer: <<>> is null, <<id>> a timer id
  abortController, \* this.abortController: <<>> is null, <<i>> owns fetch i
  sClock,       \* the time in milliseconds
  sTimers,      \* the browser's pending setTimeout callbacks
  sFetches,     \* every suggestion request issued, with its state
  sShown,       \* what the results area displays
  sLog,         \* the events handled and the requests issued, in order
  \* ---- zone lookup test suite (runTests of test-zones.js)
  tFiles,       \* which of the files the suite reads exist
  tPc,          \* "load" -> "tests" -> "compare" -> "summary" -> "done"
  tIdx,         \* index of the test case the loop is at (1-based)
  passed,       \* runTests' counters and failure list
  failed,
  failures,
  matches,      \* counters of the lookup-against-CSV comparison
  mismatches,
  tExit,        \* <<>> while running, <<code>> once the process has ended
  \* ---- shop-by-zone page (ShopByZone) and the local storage it shares
  rooted_elegance_zone,  \* localStorage item: <<>> absent, <<record>> saved
  customer_zone,         \* localStorage item: <<>> absent, <<zone>> saved
  storageThrows,         \* whether localStorage calls throw
  selectedZone,          \* ShopByZone.selectedZone: <<>> null, <<n>>, <<NaN>>
  selectedTemp           \* ShopByZone.selectedTemp: <<>> null, <<text>>

matcherVars == <<mTitle, mPlants, mPc, mPlantName, mLookup, mAgain>>
resolverVars == <<zAsset, zipToZoneData, zipDataPromise, zInjected, zCalls>>
driverVars == <<driver, env, CONFIG, catalog, served, pc, products, idx,
                results, requests, pending, stderr, report, exitCode, clock>>
analysisVars == <<aPc, aZones, aFormat, aNeeds, aNormalized, aAgain>>
widgetVars == <<wValue, wStorage, wThrows, wError, wWrites, wEvents, wSubs>>
searchVars == <<sValue, isOpen, debounceTimer, abortController, sClock,
                sTimers, sFetches, sShown, sLog>>
testVars == <<tFiles, tPc, tIdx, passed, failed, failures, matches,
              mismatches, tExit>>
shopVars == <<rooted_elegance_zone, customer_zone, storageThrows,
              selectedZone, selectedTemp>>
vars == <<matcherVars, resolverVars, driverVars, analysisVars, widgetVars,
          searchVars, testVars, shopVars>>

\* What a step of one component leaves alone: the other components
notMatcher == <<resolverVars, driverVars, analysisVars, widgetVars,
  searchVars, testVars,
  shopVars>>
notResolver == <<matcherVars, driverVars, analysisVars, widgetVars,
  searchVars, testVars,
  shopVars>>
notDriver == <<matcherVars, resolverVars, analysisVars, widgetVars,
  searchVars, testVars,
  shopVars>>
notAnalysis == <<matcherVars, resolverVars, driverVars, widgetVars,
  searchVars, testVars,
  shopVars>>
notWidget == <<matcherVars, resolverVars, driverVars, analysisVars,
  searchVars, testVars,
  shopVars>>
notWidgetNorResolver == <<matcherVars, driverVars, analysisVars,
  searchVars, testVars,
  shopVars>>
notSearch == <<matcherVars, resolverVars, driverVars, analysisVars,
  widgetVars, testVars,
  shopVars>>
notTest == <<matcherVars, resolverVars, driverVars, analysisVars,
  widgetVars, searchVars,
  shopVars>>
notShop == <<matcherVars, resolverVars, driverVars, analysisVars,
  widgetVars, searchVars, testVars>>

----------------------------------------------------------------------------
(* Optional values and small helpers                                       *)

None == <<>>
Some(x) == <<x>>

Min(S) == CHOOSE x \in S : \A y \in S : x <= y

\* Index of the first element of seq satisfying P, 0 when there is none:
\* what a `for ... of` loop with an early return finds.
FirstIndex(seq, P(_)) ==
  LET I == {i \in DOMAIN seq : P(seq[i])}
  IN IF I = {} THEN 0 ELSE Min(I)

----------------------------------------------------------------------------
(* JavaScript string primitives                                            *)

UpperCase == <<"A","B","C","D","E","F","G","H","I","J","K","L","M",
               "N","O","P","Q","R","S","T","U","V","W","X","Y","Z">>
LowerCase == <<"a","b","c","d","e","f","g","h","i","j","k","l","m",
               "n","o","p","q","r","s","t","u","v","w","x","y","z">>

\* String.prototype.toLowerCase, per character
LowerChar(c) ==
  LET I == {i \in DOMAIN UpperCase : UpperCase[i] = c}
  IN IF I = {} THEN c ELSE LowerCase[CHOOSE i \in I : TRUE]

toLowerCase(s) == [i \in 1..Len(s) |-> LowerChar(s[i])]

\* \s of a regular expression (the titles carry spaces and tabs)
IsSpace(c) == c \in {" ", "\t"}

\* \d of a regular expression
IsDigit(c) == c \in {"0","1","2","3","4","5","6","7","8","9"}

\* The trademark glyphs of /[(TM)(R)(C)]/g, written as ASCII names
Glyphs == {"(TM)", "(R)", "(C)"}

\* s.substring(i-1) for a 1-based i
From(s, i) == SubSeq(s, i, Len(s))

\* Whether lit occurs in s at (1-based) position i
At(s, i, lit) ==
  /\ i >= 1
  /\ i + Len(lit) - 1 <= Len(s)
  /\ SubSeq(s, i, i + Len(lit) - 1) = lit

\* String.prototype.includes
includes(s, sub) == \E i \in 1..(Len(s) + 1) : At(s, i, sub)

\* Every character of s at positions i .. j-1 is whitespace (resp. a digit)
AllSpace(s, i, j) == \A k \in i..(j - 1) : IsSpace(s[k])
AllDigit(s, i, j) == \A k \in i..(j - 1) : IsDigit(s[k])

\* String.prototype.trim
trim(s) ==
  LET I == {i \in DOMAIN s : ~IsSpace(s[i])}
  IN IF I = {} THEN <<>>
     ELSE SubSeq(s, Min(I), CHOOSE j \in I : \A k \in I : k <= j)

\* .replace(/\s+/g, ' '): every maximal run of whitespace becomes one space
CollapseSpace(s) ==
  LET keep == {i \in DOMAIN s : ~(IsSpace(s[i]) /\ i > 1 /\ IsSpace(s[i - 1]))}
      out[i \in 0..Len(s)] ==
        IF i = 0 THEN <<>>
        ELSE IF i \in keep
             THEN Append(out[i - 1], IF IsSpace(s[i]) THEN " " ELSE s[i])
             ELSE out[i - 1]
  IN out[Len(s)]

\* .replace(/[(TM)(R)(C)]/g, '')
StripGlyphs(s) == SelectSeq(s, LAMBDA c : c \notin Glyphs)

\* String.prototype.split(' ')
RECURSIVE split(_)
split(s) ==
  LET I == {i \in DOMAIN s : s[i] = " "}
  IN IF I = {} THEN <<s>>
     ELSE <<SubSeq(s, 1, Min(I) - 1)>> \o split(From(s, Min(I) + 1))

\* s.replace(pattern, '') for a pattern of the form /\s*core$/, whose match
\* always runs to the end of the string: the string is cut at the leftmost
\* position from which whitespace alone leads to a match of the core.
\* Core(s, j) says that the core matches s from position j to the end.
CutAtFirstMatch(s, Core(_, _)) ==
  LET J == {j \in 1..Len(s) : Core(s, j)}
      I == {i \in 1..Len(s) : \E j \in J : i <= j /\ AllSpace(s, i, j)}
  IN IF I = {} THEN s ELSE SubSeq(s, 1, Min(I) - 1)

\* String.prototype.replace(lit, '') with a string pattern: the first
\* occurrence only
ReplaceFirst(s, lit) ==
  LET I == {i \in 1..Len(s) : At(s, i, lit)}
  IN IF I = {} THEN s
     ELSE SubSeq(s, 1, Min(I) - 1) \o From(s, Min(I) + Len(lit))

----------------------------------------------------------------------------
(* extractPlantName                                                        *)

\* (gal|gallon|qt|quart|inch|in|ft|feet|pack|ct)
Units == { <<"g","a","l">>, <<"g","a","l","l","o","n">>, <<"q","t">>,
           <<"q","u","a","r","t">>, <<"i","n","c","h">>, <<"i","n">>,
           <<"f","t">>, <<"f","e","e","t">>, <<"p","a","c","k">>, <<"c","t">> }

\* \d+\s*(unit).*$ matching s from position j
SizeAt(s, j) ==
  /\ IsDigit(s[j])
  /\ \E k \in (j + 1)..(Len(s) + 1) :
       /\ AllDigit(s, j, k)
       /\ \E l \in k..(Len(s) + 1) :
            /\ AllSpace(s, k, l)
            /\ \E u \in Units : At(s, l, u)

\* /\s*-\s*\d+\s*(gal|...).*$/i after its leading \s*
DashSizePattern(s, j) ==
  /\ s[j] = "-"
  /\ \E k \in (j + 1)..Len(s) :
       /\ AllSpace(s, j + 1, k)
       /\ SizeAt(s, k)

\* /\s*\(\d+.*?\)$/ after its leading \s*
ParenPattern(s, j) ==
  /\ j + 2 <= Len(s)
  /\ s[j] = "("
  /\ IsDigit(s[j + 1])
  /\ s[Len(s)] = ")"

\* /\s*\d+\s*(gal|...).*$/i after its leading \s*
SizePattern(s, j) == SizeAt(s, j)

\* /\s*bare\s*root.*$/i after its leading \s*
BareRootPattern(s, j) ==
  /\ At(s, j, <<"b","a","r","e">>)
  /\ \E k \in (j + 4)..Len(s) :
       /\ At(s, k, <<"r","o","o","t">>)
       /\ AllSpace(s, j + 4, k)

\* /\s*potted.*$/i after its leading \s*
PottedPattern(s, j) == At(s, j, <<"p","o","t","t","e","d">>)

\* /\s*word\s*$/i after its leading \s*
EndWord(s, j, word) ==
  /\ At(s, j, word)
  /\ AllSpace(s, j + Len(word), Len(s) + 1)

TreePattern(s, j) == EndWord(s, j, <<"t","r","e","e">>)
ShrubPattern(s, j) == EndWord(s, j, <<"s","h","r","u","b">>)
PlantPattern(s, j) == EndWord(s, j, <<"p","l","a","n","t">>)

\* The first statement of extractPlantName
cleanTitle(title) == trim(CollapseSpace(StripGlyphs(toLowerCase(title))))

\* The suffixPatterns loop: the eight patterns applied once each, in order
StripSuffixes(s) ==
  LET s1 == CutAtFirstMatch(s, DashSizePattern)
      s2 == CutAtFirstMatch(s1, ParenPattern)
      s3 == CutAtFirstMatch(s2, SizePattern)
      s4 == CutAtFirstMatch(s3, BareRootPattern)
      s5 == CutAtFirstMatch(s4, PottedPattern)
      s6 == CutAtFirstMatch(s5, TreePattern)
      s7 == CutAtFirstMatch(s6, ShrubPattern)
  IN CutAtFirstMatch(s7, PlantPattern)

extractPlantName(title) == trim(StripSuffixes(cleanTitle(title)))

----------------------------------------------------------------------------
(* lookupZones                                                             *)

\* plantDatabase.plants is a sequence of entries [name, zones] in the order
\* Object.keys lists them (file order: plant names are not integer-like).
plantKeys(plants) == [i \in DOMAIN plants |-> plants[i].name]

\* Names every object answers through Object.prototype with a truthy value
\* that has no `zones` property (the title is lower-cased, so only the
\* all-lower-case ones can be asked for).
PrototypeKeys == { <<"c","o","n","s","t","r","u","c","t","o","r">>,
                   <<"_","_","p","r","o","t","o","_","_">> }

\* plants[name]: <<>> when undefined, else <<value>>
plantsGet(plants, name) ==
  LET i == FirstIndex(plants, LAMBDA e : e.name = name)
  IN IF i # 0 THEN Some([zones |-> Some(plants[i].zones)])
     ELSE IF name \in PrototypeKeys THEN Some([zones |-> None])
     ELSE None

\* Mutant: the keys are scanned in Object.keys order, without the sort
sortedByLength_Unsorted(keys) == keys

\* [...plantKeys].sort((a, b) => b.length - a.length): Array.prototype.sort
\* is stable, so keys of equal length keep their Object.keys order.
RECURSIVE sortedByLength(_)
sortedByLength(keys) ==
  IF keys = <<>> THEN <<>>
  ELSE LET n == Len(keys)
           rest == sortedByLength(SubSeq(keys, 1, n - 1))
           k == keys[n]
           before == SelectSeq(rest, LAMBDA x : Len(x) >= Len(k))
           after == SelectSeq(rest, LAMBDA x : Len(x) < Len(k))
       IN before \o <<k>> \o after

botanicalTerms == {
    <<"m","a","g","n","o","l","i","a">>, <<"m","a","p","l","e">>, <<"o","a","k">>,
    <<"p","i","n","e">>, <<"s","p","r","u","c","e">>, <<"c","e","d","a","r">>,
    <<"c","y","p","r","e","s","s">>, <<"a","r","b","o","r","v","i","t","a","e">>,
    <<"d","o","g","w","o","o","d">>, <<"r","e","d","b","u","d">>, <<"c","h","e","r","r","y">>,
    <<"c","r","a","p","e">>, <<"c","r","e","p","e">>, <<"m","y","r","t","l","e">>,
    <<"b","i","r","c","h">>, <<"w","i","l","l","o","w">>, <<"e","l","m">>, <<"a","s","h">>,
    <<"t","u","l","i","p">>, <<"g","i","n","k","g","o">>, <<"s","w","e","e","t","g","u","m">>,
    <<"s","y","c","a","m","o","r","e">>, <<"l","o","c","u","s","t">>, <<"b","e","e","c","h">>,
    <<"h","i","c","k","o","r","y">>, <<"w","a","l","n","u","t">>,
    <<"c","h","e","s","t","n","u","t">>, <<"h","a","z","e","l","n","u","t">>,
    <<"c","a","t","a","l","p","a">>, <<"b","o","x","w","o","o","d">>, <<"h","o","l","l","y">>,
    <<"p","r","i","v","e","t">>, <<"h","y","d","r","a","n","g","e","a">>,
    <<"l","i","l","a","c">>, <<"a","z","a","l","e","a">>,
    <<"r","h","o","d","o","d","e","n","d","r","o","n">>, <<"c","a","m","e","l","l","i","a">>,
    <<"g","a","r","d","e","n","i","a">>, <<"f","o","r","s","y","t","h","i","a">>,
    <<"h","i","b","i","s","c","u","s">>, <<"b","u","t","t","e","r","f","l","y">>,
    <<"s","p","i","r","e","a">>, <<"v","i","b","u","r","n","u","m">>,
    <<"b","a","r","b","e","r","r","y">>, <<"w","e","i","g","e","l","a">>,
    <<"n","i","n","e","b","a","r","k">>, <<"j","u","n","i","p","e","r">>, <<"y","e","w">>,
    <<"h","e","m","l","o","c","k">>, <<"f","i","r">>, <<"p","a","l","m">>,
    <<"s","e","r","v","i","c","e","b","e","r","r","y">>, <<"f","r","i","n","g","e">>,
    <<"b","l","u","e","b","e","r","r","y">>, <<"e","l","d","e","r","b","e","r","r","y">>,
    <<"b","e","a","u","t","y","b","e","r","r","y">>, <<"c","l","e","t","h","r","a">>,
    <<"p","h","o","t","i","n","i","a">>, <<"n","a","n","d","i","n","a">>,
    <<"l","o","r","o","p","e","t","a","l","u","m">>, <<"l","a","u","r","e","l">>,
    <<"p","i","e","r","i","s">>, <<"l","e","u","c","o","t","h","o","e">>,
    <<"a","u","c","u","b","a">>, <<"o","s","m","a","n","t","h","u","s">>,
    <<"f","a","t","s","i","a">>, <<"p","o","d","o","c","a","r","p","u","s">>,
    <<"d","e","u","t","z","i","a">>, <<"k","e","r","r","i","a">>,
    <<"p","o","t","e","n","t","i","l","l","a">>,
    <<"c","o","t","o","n","e","a","s","t","e","r">>, <<"a","b","e","l","i","a">>,
    <<"s","w","e","e","t","s","p","i","r","e">>,
    <<"f","o","t","h","e","r","g","i","l","l","a">>, <<"s","n","o","w","b","e","r","r","y">>,
    <<"c","o","r","a","l","b","e","r","r","y">>, <<"j","a","s","m","i","n","e">>,
    <<"l","a","n","t","a","n","a">>, <<"m","u","h","l","y">>, <<"m","o","n","d","o">>,
    <<"l","i","r","i","o","p","e">>, <<"d","a","y","l","i","l","y">>,
    <<"o","l","e","a","n","d","e","r">>, <<"m","a","h","o","n","i","a">>,
    <<"p","i","t","t","o","s","p","o","r","u","m">>, <<"d","i","s","t","y","l","i","u","m">>,
    <<"g","u","a","v","a">>, <<"y","u","c","c","a">>, <<"l","i","g","u","s","t","r","u","m">>,
    <<"d","i","a","n","e","l","l","a">>, <<"a","g","a","p","a","n","t","h","u","s">>,
    <<"s","a","g","e">>
  }

\* A lookupZones result; matchedKey and matchedWord are <<>> when the
\* object literal does not carry them.
MatchResult(zones, type, key, word) ==
  [zones |-> zones, matchType |-> type, matchedKey |-> key, matchedWord |-> word]

\* plants[key].zones for a key of Object.keys(plants)
zonesOf(plants, key) ==
  plants[FirstIndex(plants, LAMBDA e : e.name = key)].zones

\* "Direct match"
ExactTier(plants, plantName) ==
  LET v == plantsGet(plants, plantName)
  IN IF v # None
     THEN Some(MatchResult(v[1].zones, "exact", None, None))
     ELSE None

\* "Check if plant name contains a known plant (longer keys first)"
ContainsTier(plants, plantName) ==
  LET sorted == sortedByLength(plantKeys(plants))
      i == FirstIndex(sorted, LAMBDA key : includes(plantName, key) /\ Len(key) >= 5)
  IN IF i # 0
     THEN Some(MatchResult(Some(zonesOf(plants, sorted[i])), "contains", Some(sorted[i]), None))
     ELSE None

\* "Check if a known plant is contained in the plant name (minimum 6 chars)"
PartialTier(plants, plantName) ==
  LET keys == plantKeys(plants)
      i == FirstIndex(keys, LAMBDA key : includes(key, plantName) /\ Len(plantName) >= 6)
  IN IF i # 0
     THEN Some(MatchResult(Some(zonesOf(plants, keys[i])), "partial", Some(keys[i]), None))
     ELSE None

\* Mutant: the word match without the botanicalTerms test
BotanicalTier_AnyWord(plants, plantName) ==
  LET sorted == sortedByLength(plantKeys(plants))
      words == SelectSeq(split(plantName), LAMBDA w : Len(w) > 4)
      hit(w) == \E k \in DOMAIN sorted : includes(sorted[k], w)
      i == FirstIndex(words, hit)
  IN IF i # 0
     THEN LET word == words[i]
              k == FirstIndex(sorted, LAMBDA key : includes(key, word))
          IN Some(MatchResult(Some(zonesOf(plants, sorted[k])), "botanical",
                              Some(sorted[k]), Some(word)))
     ELSE None

\* Mutant: the word match without the filter on the word length
BotanicalTier_AnyLength(plants, plantName) ==
  LET sorted == sortedByLength(plantKeys(plants))
      words == split(plantName)
      hit(w) == /\ w \in botanicalTerms
                /\ \E k \in DOMAIN sorted : includes(sorted[k], w)
      i == FirstIndex(words, hit)
  IN IF i # 0
     THEN LET word == words[i]
              k == FirstIndex(sorted, LAMBDA key : includes(key, word))
          IN Some(MatchResult(Some(zonesOf(plants, sorted[k])), "botanical",
                              Some(sorted[k]), Some(word)))
     ELSE None

\* "Conservative word matching - only match on specific botanical terms"
BotanicalTier(plants, plantName) ==
  LET sorted == sortedByLength(plantKeys(plants))
      words == SelectSeq(split(plantName), LAMBDA w : Len(w) > 4)
      hit(w) == /\ w \in botanicalTerms
                /\ \E k \in DOMAIN sorted : includes(sorted[k], w)
      i == FirstIndex(words, hit)
  IN IF i # 0
     THEN LET word == words[i]
              k == FirstIndex(sorted, LAMBDA key : includes(key, word))
          IN Some(MatchResult(Some(zonesOf(plants, sorted[k])), "botanical",
                              Some(sorted[k]), Some(word)))
     ELSE None

\* Mutant: the contains tier tried before the direct match
lookupZones_ContainsFirst(plants, plantName) ==
  LET exact == ExactTier(plants, plantName)
      contains == ContainsTier(plants, plantName)
      partial == PartialTier(plants, plantName)
  IN IF contains # None THEN contains
     ELSE IF exact # None THEN exact
     ELSE IF partial # None THEN partial
     ELSE BotanicalTier(plants, plantName)

lookupZones(plants, plantName) ==
  LET exact == ExactTier(plants, plantName)
      contains == ContainsTier(plants, plantName)
      partial == PartialTier(plants, plantName)
  IN IF exact # None THEN exact
     ELSE IF contains # None THEN contains
     ELSE IF partial # None THEN partial
     ELSE BotanicalTier(plants, plantName)

----------------------------------------------------------------------------
(* Inputs of the matcher: titles and plant databases                       *)

MaxTitleParts == 2
MaxKeys == 2

\* words.join(' ')
RECURSIVE Join(_)
Join(words) ==
  IF words = <<>> THEN <<>>
  ELSE IF Len(words) = 1 THEN words[1]
  ELSE words[1] \o <<" ">> \o Join(Tail(words))

\* Every title made of 1 .. n parts of the vocabulary, separated by a space
TitlesOver(vocabulary, n) ==
  {Join(ws) : ws \in UNION {[1..k -> vocabulary] : k \in 1..n}}

\* Title parts that exercise the matcher tiers ("Little Red Shrub",
\* "Japanese Maple", "Japanese Red Sage", ...)
MatchWords == { <<"J","a","p","a","n","e","s","e">>, <<"M","a","p","l","e">>,
                <<"J","a","p","a","n","e","s","e"," ","M","a","p","l","e">>,
                <<"L","i","t","t","l","e"," ","R","e","d">>,
                <<"R","e","d"," ","S","a","g","e">>, <<"S","h","r","u","b">> }

\* Title parts that exercise the clean-up and the suffix patterns ("Maple(TM)
\* tree - 3 Gal", "Maple (3 qt)", "Maple bare root", "Maple tree Shrub", ...)
ExtractWords == { <<"M","a","p","l","e","(TM)">>, <<"t","r","e","e">>,
                  <<"S","h","r","u","b">>, <<"p","l","a","n","t">>,
                  <<"P","o","t","t","e","d">>, <<"b","a","r","e">>,
                  <<"r","o","o","t">>, <<"3">>, <<"G","a","l">>, <<"-">>,
                  <<"(","3">>, <<"q","t",")">>, <<"\t">> }

\* Database entries the databases are drawn from
KeyPool == {
  [name |-> <<"m","a","p","l","e">>, zones |-> <<"3","4","5">>],
  [name |-> <<"j","a","p","a","n","e","s","e"," ","m","a","p","l","e">>,
   zones |-> <<"5","6","7","8">>],
  [name |-> <<"j","a","p","a","n","e","s","e">>, zones |-> <<"6","7">>],
  [name |-> <<"r","e","d"," ","s","a","g","e">>, zones |-> <<"8","9">>],
  [name |-> <<"s","a","g","e">>, zones |-> <<"4","5","6","7","8">>] }

\* Every database of at most MaxKeys entries with distinct names, in every
\* key order
Databases ==
  {db \in UNION {[1..n -> KeyPool] : n \in 0..MaxKeys} :
     \A i, j \in DOMAIN db : i # j => db[i].name # db[j].name}

----------------------------------------------------------------------------
(* The matcher applied to one product title, as main's loop applies it     *)

MatcherIdle ==
  /\ mTitle = <<>>
  /\ mPlants = <<>>
  /\ mPc = "idle"
  /\ mPlantName = <<>>
  /\ mLookup = None
  /\ mAgain = <<>>

MatcherStart(titles, databases) ==
  /\ mTitle \in titles
  /\ mPlants \in databases
  /\ mPc = "title"
  /\ mPlantName = <<>>
  /\ mLookup = None
  /\ mAgain = <<>>

\* const plantName = extractPlantName(product.title);
Extract ==
  /\ mPc = "title"
  /\ mPlantName' = extractPlantName(mTitle)
  /\ mPc' = "extracted"
  /\ UNCHANGED <<mTitle, mPlants, mLookup, mAgain>>

\* const lookup = lookupZones(plantName);
Lookup ==
  /\ mPc = "extracted"
  /\ mLookup' = lookupZones(mPlants, mPlantName)
  /\ mPc' = "looked"
  /\ UNCHANGED <<mTitle, mPlants, mPlantName, mAgain>>

\* extractPlantName applied to its own result
ExtractAgain ==
  /\ mPc = "extracted"
  /\ mAgain' = extractPlantName(mPlantName)
  /\ mPc' = "again"
  /\ UNCHANGED <<mTitle, mPlants, mPlantName, mLookup>>

----------------------------------------------------------------------------
(* Zone resolver: the tables                                               *)

\* A JavaScript object with string keys is the set of its <<key, value>>
\* pairs; obj[key] is <<>> when the key is absent (undefined).
ObjectGet(obj, key) ==
  LET hits == {p \in obj : p[1] = key}
  IN IF hits = {} THEN None ELSE Some((CHOOSE p \in hits : TRUE)[2])

ObjectKeys(obj) == {p[1] : p \in obj}

\* Mutant: the temperature-range table without the zones above 1
ZONE_DATA_zones_OnlyZone1 == {
  <<"1a", [min |-> -60, max |-> -55, label |-> "1a"]>>,
  <<"1b", [min |-> -55, max |-> -50, label |-> "1b"]>> }

\* ZONE_DATA.zones: zone code -> temperature range
ZONE_DATA_zones == {
  <<"1a", [min |-> -60, max |-> -55, label |-> "1a"]>>,
  <<"1b", [min |-> -55, max |-> -50, label |-> "1b"]>>,
  <<"2a", [min |-> -50, max |-> -45, label |-> "2a"]>>,
  <<"2b", [min |-> -45, max |-> -40, label |-> "2b"]>>,
  <<"3a", [min |-> -40, max |-> -35, label |-> "3a"]>>,
  <<"3b", [min |-> -35, max |-> -30, label |-> "3b"]>>,
  <<"4a", [min |-> -30, max |-> -25, label |-> "4a"]>>,
  <<"4b", [min |-> -25, max |-> -20, label |-> "4b"]>>,
  <<"5a", [min |-> -20, max |-> -15, label |-> "5a"]>>,
  <<"5b", [min |-> -15, max |-> -10, label |-> "5b"]>>,
  <<"6a", [min |-> -10, max |-> -5, label |-> "6a"]>>,
  <<"6b", [min |-> -5, max |-> 0, label |-> "6b"]>>,
  <<"7a", [min |-> 0, max |-> 5, label |-> "7a"]>>,
  <<"7b", [min |-> 5, max |-> 10, label |-> "7b"]>>,
  <<"8a", [min |-> 10, max |-> 15, label |-> "8a"]>>,
  <<"8b", [min |-> 15, max |-> 20, label |-> "8b"]>>,
  <<"9a", [min |-> 20, max |-> 25, label |-> "9a"]>>,
  <<"9b", [min |-> 25, max |-> 30, label |-> "9b"]>>,
  <<"10a", [min |-> 30, max |-> 35, label |-> "10a"]>>,
  <<"10b", [min |-> 35, max |-> 40, label |-> "10b"]>>,
  <<"11a", [min |-> 40, max |-> 45, label |-> "11a"]>>,
  <<"11b", [min |-> 45, max |-> 50, label |-> "11b"]>>,
  <<"12a", [min |-> 50, max |-> 55, label |-> "12a"]>>,
  <<"12b", [min |-> 55, max |-> 60, label |-> "12b"]>>,
  <<"13a", [min |-> 60, max |-> 65, label |-> "13a"]>>,
  <<"13b", [min |-> 65, max |-> 70, label |-> "13b"]>> }

\* ZONE_DATA.zipToZone of the variant that carries its own prefix table
ZONE_DATA_zipToZone == {
  <<"010","5b">>, <<"011","5b">>, <<"012","5a">>, <<"013","5b">>, <<"014","6a">>,
  <<"015","6a">>, <<"016","6a">>, <<"017","6b">>, <<"018","6b">>, <<"019","6a">>,
  <<"020","6b">>, <<"021","6b">>, <<"022","6b">>, <<"023","6a">>, <<"024","6a">>,
  <<"025","6a">>, <<"026","5b">>, <<"027","5b">>, <<"100","7a">>, <<"101","7a">>,
  <<"102","6b">>, <<"103","6b">>, <<"104","6b">>, <<"105","6b">>, <<"106","6b">>,
  <<"107","6a">>, <<"108","6a">>, <<"109","5b">>, <<"110","7a">>, <<"111","7a">>,
  <<"112","7a">>, <<"113","7a">>, <<"114","7b">>, <<"115","7b">>, <<"116","7a">>,
  <<"117","7a">>, <<"118","7a">>, <<"119","7a">>, <<"120","5b">>, <<"121","5b">>,
  <<"122","5a">>, <<"123","5a">>, <<"124","5b">>, <<"125","5b">>, <<"126","5b">>,
  <<"127","6a">>, <<"128","4b">>, <<"129","5a">>, <<"130","5a">>, <<"131","5a">>,
  <<"132","5a">>, <<"133","5b">>, <<"134","5b">>, <<"135","5b">>, <<"136","5b">>,
  <<"137","6a">>, <<"138","5b">>, <<"139","5b">>, <<"140","6a">>, <<"141","6a">>,
  <<"142","6a">>, <<"143","5b">>, <<"144","5b">>, <<"145","5b">>, <<"146","5b">>,
  <<"147","5b">>, <<"148","5b">>, <<"149","5b">>, <<"150","6b">>, <<"151","6b">>,
  <<"152","6a">>, <<"153","6a">>, <<"154","6a">>, <<"155","6a">>, <<"156","6a">>,
  <<"157","6b">>, <<"158","6a">>, <<"159","6a">>, <<"160","6a">>, <<"161","6a">>,
  <<"162","5b">>, <<"163","5b">>, <<"164","5b">>, <<"165","6a">>, <<"166","6a">>,
  <<"167","6a">>, <<"168","6a">>, <<"169","6a">>, <<"170","6b">>, <<"171","6b">>,
  <<"172","6b">>, <<"173","6b">>, <<"174","6b">>, <<"175","6b">>, <<"176","6b">>,
  <<"177","6b">>, <<"178","6b">>, <<"179","6b">>, <<"180","6b">>, <<"181","6a">>,
  <<"182","5b">>, <<"183","6a">>, <<"184","6a">>, <<"185","6a">>, <<"186","5b">>,
  <<"187","6a">>, <<"188","6b">>, <<"189","6b">>, <<"190","7a">>, <<"191","7a">>,
  <<"192","7a">>, <<"193","6b">>, <<"194","7a">>, <<"195","7a">>, <<"196","7a">>,
  <<"197","7a">>, <<"198","7a">>, <<"199","7a">>, <<"200","7a">>, <<"201","7a">>,
  <<"202","7a">>, <<"203","7a">>, <<"204","7a">>, <<"205","7a">>, <<"206","7a">>,
  <<"207","7a">>, <<"208","7a">>, <<"209","7a">>, <<"210","7a">>, <<"211","7a">>,
  <<"212","7a">>, <<"213","7a">>, <<"214","7b">>, <<"215","7a">>, <<"216","7a">>,
  <<"217","6b">>, <<"218","6b">>, <<"219","6b">>, <<"220","7a">>, <<"221","7a">>,
  <<"222","7a">>, <<"223","7a">>, <<"224","7a">>, <<"225","7a">>, <<"226","7a">>,
  <<"227","7a">>, <<"228","7a">>, <<"229","7b">>, <<"230","7a">>, <<"231","7b">>,
  <<"232","7b">>, <<"233","8a">>, <<"234","7b">>, <<"235","8a">>, <<"236","8a">>,
  <<"237","7b">>, <<"238","7a">>, <<"239","7a">>, <<"240","6b">>, <<"241","6b">>,
  <<"242","6b">>, <<"243","6b">>, <<"244","6b">>, <<"245","6b">>, <<"246","6b">>,
  <<"247","6b">>, <<"248","6a">>, <<"249","6b">>, <<"270","7b">>, <<"271","7b">>,
  <<"272","7b">>, <<"273","7b">>, <<"274","7b">>, <<"275","7b">>, <<"276","7a">>,
  <<"277","7b">>, <<"278","7a">>, <<"279","7a">>, <<"280","8a">>, <<"281","8a">>,
  <<"282","7b">>, <<"283","8a">>, <<"284","8a">>, <<"285","8a">>, <<"286","7b">>,
  <<"287","7b">>, <<"288","7a">>, <<"289","7b">>, <<"290","8a">>, <<"291","8a">>,
  <<"292","8a">>, <<"293","8a">>, <<"294","8a">>, <<"295","8b">>, <<"296","8a">>,
  <<"297","7b">>, <<"298","8a">>, <<"299","8b">>, <<"300","7b">>, <<"301","8a">>,
  <<"302","8a">>, <<"303","7b">>, <<"304","8a">>, <<"305","8a">>, <<"306","8a">>,
  <<"307","8a">>, <<"308","8a">>, <<"309","8a">>, <<"310","8a">>, <<"311","8a">>,
  <<"312","8b">>, <<"313","8b">>, <<"314","8b">>, <<"315","8b">>, <<"316","8b">>,
  <<"317","8b">>, <<"318","9a">>, <<"319","9a">>, <<"320","8b">>, <<"321","9a">>,
  <<"322","9a">>, <<"323","9b">>, <<"324","9a">>, <<"325","9a">>, <<"326","9a">>,
  <<"327","9b">>, <<"328","9b">>, <<"329","10a">>, <<"330","10a">>, <<"331","10a">>,
  <<"332","10b">>, <<"333","10b">>, <<"334","10b">>, <<"335","10a">>, <<"336","10a">>,
  <<"337","10a">>, <<"338","10a">>, <<"339","10a">>, <<"340","10b">>, <<"341","10a">>,
  <<"342","9b">>, <<"344","9b">>, <<"346","9b">>, <<"347","9b">>, <<"349","9a">>,
  <<"430","6a">>, <<"431","5b">>, <<"432","6a">>, <<"433","6a">>, <<"434","5b">>,
  <<"435","5b">>, <<"436","5b">>, <<"437","5b">>, <<"438","5b">>, <<"439","5b">>,
  <<"440","6a">>, <<"441","6a">>, <<"442","6a">>, <<"443","5b">>, <<"444","5b">>,
  <<"445","6a">>, <<"446","5b">>, <<"447","6a">>, <<"448","6a">>, <<"449","6a">>,
  <<"450","6a">>, <<"451","6a">>, <<"452","6a">>, <<"453","6a">>, <<"454","5b">>,
  <<"455","6a">>, <<"456","6a">>, <<"457","6a">>, <<"458","6a">>, <<"459","6a">>,
  <<"480","6a">>, <<"481","6a">>, <<"482","6a">>, <<"483","6a">>, <<"484","5b">>,
  <<"485","5b">>, <<"486","5b">>, <<"487","5b">>, <<"488","5b">>, <<"489","5b">>,
  <<"490","5b">>, <<"491","5b">>, <<"492","5b">>, <<"493","5a">>, <<"494","5a">>,
  <<"495","5a">>, <<"496","5a">>, <<"497","4b">>, <<"498","4b">>, <<"499","4b">>,
  <<"600","5b">>, <<"601","5b">>, <<"602","5b">>, <<"603","5b">>, <<"604","5b">>,
  <<"605","5b">>, <<"606","5b">>, <<"607","5b">>, <<"608","5a">>, <<"609","5b">>,
  <<"610","5b">>, <<"611","5a">>, <<"612","5a">>, <<"613","5a">>, <<"614","5b">>,
  <<"615","5b">>, <<"616","5b">>, <<"617","5b">>, <<"618","6a">>, <<"619","5b">>,
  <<"620","5b">>, <<"621","5b">>, <<"622","6a">>, <<"623","6a">>, <<"624","6a">>,
  <<"625","5b">>, <<"626","5b">>, <<"627","6a">>, <<"628","6a">>, <<"629","6b">>,
  <<"750","8a">>, <<"751","8a">>, <<"752","8a">>, <<"753","8a">>, <<"754","8a">>,
  <<"755","8a">>, <<"756","8a">>, <<"757","8a">>, <<"758","8b">>, <<"759","8a">>,
  <<"760","7b">>, <<"761","8a">>, <<"762","8a">>, <<"763","8a">>, <<"764","8a">>,
  <<"765","8a">>, <<"766","7b">>, <<"767","7b">>, <<"768","7b">>, <<"769","7b">>,
  <<"770","9a">>, <<"771","9a">>, <<"772","9a">>, <<"773","9a">>, <<"774","9a">>,
  <<"775","9a">>, <<"776","9a">>, <<"777","9a">>, <<"778","9b">>, <<"779","9a">>,
  <<"780","9a">>, <<"781","9a">>, <<"782","9a">>, <<"783","9b">>, <<"784","9b">>,
  <<"785","9b">>, <<"786","9b">>, <<"787","8b">>, <<"788","8b">>, <<"789","8a">>,
  <<"790","7a">>, <<"791","7a">>, <<"792","7a">>, <<"793","7a">>, <<"794","7a">>,
  <<"795","7a">>, <<"796","7b">>, <<"797","7b">>, <<"798","8a">>, <<"799","7b">>,
  <<"900","10b">>, <<"901","10b">>, <<"902","10b">>, <<"903","10a">>, <<"904","10a">>,
  <<"905","10b">>, <<"906","10b">>, <<"907","10a">>, <<"908","10a">>, <<"909","9b">>,
  <<"910","10a">>, <<"911","10a">>, <<"912","10a">>, <<"913","10a">>, <<"914","9b">>,
  <<"915","9b">>, <<"916","9b">>, <<"917","9b">>, <<"918","10a">>, <<"919","9b">>,
  <<"920","10b">>, <<"921","10b">>, <<"922","9b">>, <<"923","9b">>, <<"924","9b">>,
  <<"925","9b">>, <<"926","10a">>, <<"927","10a">>, <<"928","10a">>, <<"929","9a">>,
  <<"930","9b">>, <<"931","9a">>, <<"932","9a">>, <<"933","9a">>, <<"934","9b">>,
  <<"935","8b">>, <<"936","9a">>, <<"937","9a">>, <<"938","9a">>, <<"939","9b">>,
  <<"940","10a">>, <<"941","10a">>, <<"942","10a">>, <<"943","9b">>, <<"944","10a">>,
  <<"945","10a">>, <<"946","10a">>, <<"947","10a">>, <<"948","9b">>, <<"949","9b">>,
  <<"950","9b">>, <<"951","9b">>, <<"952","9a">>, <<"953","9b">>, <<"954","9a">>,
  <<"955","9a">>, <<"956","9a">>, <<"957","9a">>, <<"958","9a">>, <<"959","9a">>,
  <<"960","9a">>, <<"961","8b">>, <<"980","8b">>, <<"981","8b">>, <<"982","8b">>,
  <<"983","8a">>, <<"984","8a">>, <<"985","8b">>, <<"986","6b">>, <<"987","6b">>,
  <<"988","6a">>, <<"989","6a">>, <<"990","6b">>, <<"991","6a">>, <<"992","6a">>,
  <<"993","5b">>, <<"994","5b">>, <<"970","8b">>, <<"971","8b">>, <<"972","8b">>,
  <<"973","8b">>, <<"974","8a">>, <<"975","8a">>, <<"976","7b">>, <<"977","6b">>,
  <<"978","6b">>, <<"979","6a">>, <<"800","5b">>, <<"801","5b">>, <<"802","5a">>,
  <<"803","5a">>, <<"804","5a">>, <<"805","5a">>, <<"806","5a">>, <<"807","4b">>,
  <<"808","4b">>, <<"809","4b">>, <<"810","5b">>, <<"811","5a">>, <<"812","4b">>,
  <<"813","4b">>, <<"814","4b">>, <<"815","4b">>, <<"816","5a">>, <<"850","9b">>,
  <<"851","9b">>, <<"852","9b">>, <<"853","9a">>, <<"855","8a">>, <<"856","9a">>,
  <<"857","8a">>, <<"859","7a">>, <<"860","9a">>, <<"863","9b">>, <<"864","8b">>,
  <<"865","8b">> }

\* The string of a sequence of characters (to key an object with)
RECURSIVE Text(_)
Text(chars) == IF chars = <<>> THEN "" ELSE Head(chars) \o Text(Tail(chars))

\* Mutant: the key is taken from the last three characters of the ZIP
zipPrefix_LastThree(zipCode) == Text(SubSeq(zipCode, 3, 5))

\* zipCode.substring(0, 3)
zipPrefix(zipCode) == Text(SubSeq(zipCode, 1, 3))

\* The tail of getZoneFromZip, shared by both variants: the lookup of the
\* prefix in `data` and the object returned, <<>> for null.
\*   const zoneCode = data[prefix];
\*   if (zoneCode) return { zone: zoneCode, ...ZONE_DATA.zones[zoneCode] };
\*   return null;
zoneFromTable(data, zipCode) ==
  LET zoneCode == ObjectGet(data, zipPrefix(zipCode))
  IN IF zoneCode # None /\ zoneCode[1] # ""
     THEN Some([zone |-> zoneCode[1], range |-> ObjectGet(ZONE_DATA_zones, zoneCode[1])])
     ELSE None


----------------------------------------------------------------------------
(* Zone resolver: getZoneFromZip, hardcoded and lazily loaded              *)

MaxCalls == 2

\* The ZIP codes submitted: a prefix of three characters and two more
ZipPrefixes == { <<"0","1","0">>, <<"1","0","0">>, <<"0","0","0">>, <<"9","6","a">>,
                 <<"9","6","7">> }
ZipSuffixes == { <<"1","0">>, <<"9","9">> }
Zips == {p \o s : p \in ZipPrefixes, s \in ZipSuffixes}

\* The entries of the generated prefix table below 740 that the recorded
\* run of the lookup test suite shows (its Result column)
zipToZone_below_740 == {
  <<"010","6a">>, <<"021","7a">>, <<"044","5a">>, <<"054","5a">>, <<"100","7b">>,
  <<"276","8a">>, <<"294","9a">>, <<"303","8a">>, <<"328","10a">>, <<"331","11a">>,
  <<"432","6b">>, <<"462","6b">>, <<"482","6b">>, <<"554","5a">>, <<"596","4b">>,
  <<"606","6a">>, <<"733","9a">> }

\* The part of the generated prefix table that the widget source still
\* carries: prefixes 740 to 999
zipToZone_740_999 == {
  <<"740","7a">>, <<"741","7b">>, <<"742","7b">>, <<"743","7a">>, <<"744","7b">>,
  <<"745","7b">>, <<"746","7a">>, <<"747","8a">>, <<"748","7b">>, <<"749","7b">>,
  <<"750","8b">>, <<"751","8b">>, <<"752","8b">>, <<"753","8b">>, <<"754","8b">>,
  <<"755","8b">>, <<"756","8b">>, <<"757","8b">>, <<"758","8b">>, <<"759","9a">>,
  <<"760","8b">>, <<"761","8b">>, <<"762","8a">>, <<"763","8a">>, <<"764","8a">>,
  <<"765","8b">>, <<"766","8b">>, <<"767","8b">>, <<"768","8b">>, <<"769","8a">>,
  <<"770","9b">>, <<"771","9b">>, <<"772","9b">>, <<"773","9a">>, <<"774","9b">>,
  <<"775","9b">>, <<"776","9a">>, <<"777","9b">>, <<"778","9a">>, <<"779","9b">>,
  <<"780","9a">>, <<"781","9a">>, <<"782","9a">>, <<"783","9b">>, <<"784","10a">>,
  <<"785","10a">>, <<"786","9a">>, <<"787","9a">>, <<"788","9a">>, <<"789","9a">>,
  <<"790","7a">>, <<"791","7a">>, <<"792","7b">>, <<"793","7b">>, <<"794","7b">>,
  <<"795","8a">>, <<"796","8a">>, <<"797","8a">>, <<"798","8b">>, <<"799","8b">>,
  <<"800","6a">>, <<"801","6a">>, <<"802","6a">>, <<"803","6a">>, <<"804","5b">>,
  <<"805","5b">>, <<"806","5b">>, <<"807","5b">>, <<"808","5b">>, <<"809","6a">>,
  <<"810","6a">>, <<"811","5b">>, <<"812","5b">>, <<"813","6b">>, <<"814","6b">>,
  <<"815","7a">>, <<"816","6a">>, <<"817","5b">>, <<"818","5b">>, <<"819","5b">>,
  <<"820","5b">>, <<"821","4b">>, <<"822","5a">>, <<"823","5a">>, <<"824","5a">>,
  <<"825","5a">>, <<"826","5a">>, <<"827","4b">>, <<"828","5a">>, <<"829","5a">>,
  <<"830","4b">>, <<"831","5b">>, <<"832","5b">>, <<"833","6b">>, <<"834","5a">>,
  <<"835","6b">>, <<"836","7a">>, <<"837","7a">>, <<"838","6b">>, <<"839","6b">>,
  <<"840","7a">>, <<"841","7b">>, <<"842","7a">>, <<"843","6a">>, <<"844","7a">>,
  <<"845","6a">>, <<"846","6a">>, <<"847","6a">>, <<"848","7b">>, <<"849","8b">>,
  <<"850","10a">>, <<"851","9a">>, <<"852","9b">>, <<"853","9b">>, <<"854","9a">>,
  <<"855","8b">>, <<"856","8b">>, <<"857","9b">>, <<"858","8a">>, <<"859","6b">>,
  <<"860","7a">>, <<"861","7b">>, <<"862","8a">>, <<"863","8b">>, <<"864","9b">>,
  <<"865","7a">>, <<"866","6b">>, <<"867","6b">>, <<"868","6b">>, <<"869","6b">>,
  <<"870","6b">>, <<"871","7b">>, <<"872","6b">>, <<"873","6a">>, <<"874","7a">>,
  <<"875","6b">>, <<"876","7b">>, <<"877","6a">>, <<"878","7b">>, <<"879","8a">>,
  <<"880","8b">>, <<"881","7a">>, <<"882","8a">>, <<"883","7a">>, <<"884","7a">>,
  <<"885","8b">>, <<"886","8b">>, <<"887","8b">>, <<"888","8a">>, <<"889","9a">>,
  <<"890","9b">>, <<"891","9b">>, <<"892","7b">>, <<"893","6a">>, <<"894","7a">>,
  <<"895","7b">>, <<"896","7b">>, <<"897","7a">>, <<"898","5b">>, <<"899","8a">>,
  <<"900","10b">>, <<"901","10b">>, <<"902","10b">>, <<"903","10b">>, <<"904","11a">>,
  <<"905","10b">>, <<"906","10b">>, <<"907","10b">>, <<"908","10b">>, <<"909","10b">>,
  <<"910","10a">>, <<"911","10a">>, <<"912","10a">>, <<"913","10a">>, <<"914","10a">>,
  <<"915","10a">>, <<"916","10a">>, <<"917","10a">>, <<"918","10a">>, <<"919","10b">>,
  <<"920","10a">>, <<"921","10b">>, <<"922","10a">>, <<"923","8b">>, <<"924","10a">>,
  <<"925","9b">>, <<"926","10b">>, <<"927","10b">>, <<"928","10b">>, <<"929","10b">>,
  <<"930","10a">>, <<"931","10b">>, <<"932","9b">>, <<"933","9b">>, <<"934","10a">>,
  <<"935","8b">>, <<"936","9b">>, <<"937","9b">>, <<"938","9b">>, <<"939","9b">>,
  <<"940","10a">>, <<"941","10b">>, <<"942","9b">>, <<"943","9b">>, <<"944","10a">>,
  <<"945","9b">>, <<"946","10a">>, <<"947","10a">>, <<"948","10a">>, <<"949","9b">>,
  <<"950","9b">>, <<"951","9b">>, <<"952","9b">>, <<"953","9b">>, <<"954","9b">>,
  <<"955","9b">>, <<"956","9b">>, <<"957","9b">>, <<"958","9b">>, <<"959","9b">>,
  <<"960","9a">>, <<"961","6b">>, <<"962","7b">>, <<"963","8b">>, <<"964","9b">>,
  <<"965","10b">>, <<"966","11b">>, <<"967","12b">>, <<"968","12b">>, <<"969","10b">>,
  <<"970","8b">>, <<"971","8b">>, <<"972","9a">>, <<"973","8b">>, <<"974","8b">>,
  <<"975","8b">>, <<"976","6b">>, <<"977","6b">>, <<"978","6b">>, <<"979","6b">>,
  <<"980","8b">>, <<"981","9a">>, <<"982","8b">>, <<"983","8b">>, <<"984","8b">>,
  <<"985","8b">>, <<"986","8b">>, <<"987","7b">>, <<"988","7a">>, <<"989","7a">>,
  <<"990","6b">>, <<"991","6b">>, <<"992","7a">>, <<"993","7a">>, <<"994","7a">>,
  <<"995","5a">>, <<"996","4b">>, <<"997","2a">>, <<"998","7a">>, <<"999","7b">> }

\* What the generated prefix-table script does once injected: it fails to
\* load, or it loads and leaves globals on window (<<>> when not set).
CompiledTable == zipToZone_below_740 \cup zipToZone_740_999
Assets == {
  [fails |-> TRUE, zipToZoneData |-> None, zipToZone |-> None],
  [fails |-> FALSE, zipToZoneData |-> None, zipToZone |-> None],
  [fails |-> FALSE, zipToZoneData |-> Some(CompiledTable), zipToZone |-> None],
  [fails |-> FALSE, zipToZoneData |-> None, zipToZone |-> Some(CompiledTable)] }

\* window.zipToZoneData || window.zipToZone || null
windowTable(asset) ==
  IF asset.zipToZoneData # None THEN asset.zipToZoneData
  ELSE IF asset.zipToZone # None THEN asset.zipToZone
  ELSE None

ResolverStart ==
  /\ zAsset \in Assets
  /\ zipToZoneData = None
  /\ zipDataPromise = "null"
  /\ zInjected = 0
  /\ zCalls = <<>>

Call(which, zipCode, state, value) ==
  [which |-> which, zip |-> zipCode, state |-> state, value |-> value]

\* Mutant: the load promise awaited without its .catch(() => null)
AwaitZipData_NoCatch(promise, data) ==
  IF promise = "resolved"
  THEN [settled |-> "fulfilled", data |-> data]
  ELSE [settled |-> "rejected", data |-> None]

\* await ensureZipDataLoaded().catch(() => null), once the promise settled
AwaitZipData(promise, data) ==
  IF promise = "resolved"
  THEN [settled |-> "fulfilled", data |-> data]
  ELSE [settled |-> "fulfilled", data |-> None]

\* getZoneFromZip from `if (!data) return null;` on
Settle(call, awaited) ==
  IF awaited.settled = "rejected" THEN Call(call.which, call.zip, "rejected", None)
  ELSE IF awaited.data = None THEN Call(call.which, call.zip, "fulfilled", None)
  ELSE Call(call.which, call.zip, "fulfilled", zoneFromTable(awaited.data[1], call.zip))

\* getZoneFromZip(zipCode) of the variant with the table built in
GetZoneFromZipStatic(zipCode) ==
  /\ Len(zCalls) < MaxCalls
  /\ zCalls' = Append(zCalls,
       Call("static", zipCode, "fulfilled", zoneFromTable(ZONE_DATA_zipToZone, zipCode)))
  /\ UNCHANGED <<zAsset, zipToZoneData, zipDataPromise, zInjected>>

\* Mutant: ensureZipDataLoaded without its `if (zipDataPromise)` check
GetZoneFromZip_NoPromiseCheck(zipCode) ==
  /\ Len(zCalls) < MaxCalls
  /\ IF zipToZoneData # None
     THEN /\ zCalls' = Append(zCalls,
               Call("lazy", zipCode, "fulfilled", zoneFromTable(zipToZoneData[1], zipCode)))
          /\ UNCHANGED <<zipDataPromise, zInjected>>
     ELSE /\ zCalls' = Append(zCalls, Call("lazy", zipCode, "awaiting", None))
          /\ zipDataPromise' = "pending"
          /\ zInjected' = zInjected + 1
  /\ UNCHANGED <<zAsset, zipToZoneData>>

\* getZoneFromZip(zipCode) of the lazily loading variant, up to its await:
\* with the table cached it returns at once; otherwise ensureZipDataLoaded
\* hands out the one load promise, injecting the script when there is none.
GetZoneFromZip(zipCode) ==
  /\ Len(zCalls) < MaxCalls
  /\ IF zipToZoneData # None
     THEN /\ zCalls' = Append(zCalls,
               Call("lazy", zipCode, "fulfilled", zoneFromTable(zipToZoneData[1], zipCode)))
          /\ UNCHANGED <<zipDataPromise, zInjected>>
     ELSE /\ zCalls' = Append(zCalls, Call("lazy", zipCode, "awaiting", None))
          /\ IF zipDataPromise = "null"
             THEN zipDataPromise' = "pending" /\ zInjected' = zInjected + 1
             ELSE UNCHANGED <<zipDataPromise, zInjected>>
  /\ UNCHANGED <<zAsset, zipToZoneData>>

\* script.onload
ScriptOnload ==
  /\ zipDataPromise = "pending"
  /\ ~zAsset.fails
  /\ zipToZoneData' = windowTable(zAsset)
  /\ zipDataPromise' = IF windowTable(zAsset) # None THEN "resolved" ELSE "rejected"
  /\ UNCHANGED <<zAsset, zInjected, zCalls>>

\* script.onerror
ScriptOnerror ==
  /\ zipDataPromise = "pending"
  /\ zAsset.fails
  /\ zipDataPromise' = "rejected"
  /\ UNCHANGED <<zAsset, zipToZoneData, zInjected, zCalls>>

\* A suspended getZoneFromZip resumes once the load promise has settled
ResumeGetZoneFromZip(i) ==
  /\ zCalls[i].state = "awaiting"
  /\ zipDataPromise \in {"resolved", "rejected"}
  /\ zCalls' = [zCalls EXCEPT ![i] = Settle(@, AwaitZipData(zipDataPromise, zipToZoneData))]
  /\ UNCHANGED <<zAsset, zipToZoneData, zipDataPromise, zInjected>>


----------------------------------------------------------------------------
(* Sync and audit drivers: data and pure helpers                           *)

MaxProducts == 2

\* products(first: 50, ...): the most products one page returns
PageSize == 50

\* An element of a zones list: a string, or (the metafield being any JSON) a
\* value that is not a string
Str(chars) == [t |-> "str", v |-> chars]
Num(chars) == [t |-> "num", v |-> chars]

Zone7Old == <<"z","o","n","e","-","7">>
Zone7New == <<"7">>

\* plantDatabase.plants as loaded from plant-zones.json at start-up
plantDatabase ==
  << [name |-> <<"m","a","p","l","e">>, zones |-> <<"3","4","5">>],
     [name |-> <<"j","a","p","a","n","e","s","e"," ","m","a","p","l","e">>,
      zones |-> <<"5","6","7","8">>] >>

TitleMaple == <<"J","a","p","a","n","e","s","e"," ","M","a","p","l","e"," ","T","r","e","e">>
TitleShrub == <<"L","i","t","t","l","e"," ","R","e","d"," ","S","h","r","u","b">>
TitleConstructor == <<"C","o","n","s","t","r","u","c","t","o","r">>

\* The zone metafield of a product as the shop stores it: absent, or a value
\* that JSON.parse accepts (giving `value`) or rejects (the raw `text`)
NoMetafield == None
Json(value) == Some([parses |-> TRUE, value |-> value, text |-> <<>>])
NotJson(text) == Some([parses |-> FALSE, value |-> <<>>, text |-> text])

\* The kinds of product a shop holds
ProductPool == {
  [title |-> TitleMaple, metafield |-> NoMetafield],
  [title |-> TitleShrub, metafield |-> NoMetafield],
  [title |-> TitleConstructor, metafield |-> NoMetafield],
  [title |-> TitleMaple, metafield |-> Json(<<>>)],
  [title |-> TitleMaple, metafield |-> Json(<<Str(Zone7New)>>)],
  [title |-> TitleShrub, metafield |-> Json(<<Str(Zone7Old)>>)],
  [title |-> TitleShrub, metafield |-> Json(<<Str(Zone7Old), Num(Zone7New)>>)],
  [title |-> TitleMaple, metafield |-> NotJson(Zone7Old)] }

Catalogs == UNION {[1..n -> ProductPool] : n \in 0..MaxProducts}

\* Mutant: only the store domain is checked
validateConfig_StoreOnly(environment) ==
  IF "SHOPIFY_STORE_DOMAIN" \notin environment THEN <<"SHOPIFY_STORE_DOMAIN">> ELSE <<>>

\* validateConfig: the `missing` list; the process exits with code 1 when it
\* is not empty
validateConfig(environment) ==
  (IF "SHOPIFY_STORE_DOMAIN" \notin environment THEN <<"SHOPIFY_STORE_DOMAIN">> ELSE <<>>)
  \o (IF "SHOPIFY_ADMIN_API_TOKEN" \notin environment THEN <<"SHOPIFY_ADMIN_API_TOKEN">> ELSE <<>>)

\* The product object fetchAllProducts pushes for catalog product number id.
\* The sync driver parses the metafield with a bare JSON.parse, which throws
\* on a value that is not JSON; the audit driver catches that and keeps the
\* raw value as a one-element list.
fetchedProduct(which, id, node) ==
  IF node.metafield = None
  THEN [threw |-> FALSE, product |-> [id |-> id, title |-> node.title, existingZones |-> None]]
  ELSE IF node.metafield[1].parses
  THEN [threw |-> FALSE,
        product |-> [id |-> id, title |-> node.title,
                     existingZones |-> Some(node.metafield[1].value)]]
  ELSE IF which = "audit"
  THEN [threw |-> FALSE,
        product |-> [id |-> id, title |-> node.title,
                     existingZones |-> Some(<<Str(node.metafield[1].text)>>)]]
  ELSE [threw |-> TRUE, product |-> [id |-> id, title |-> node.title, existingZones |-> None]]

\* needsNormalization
needsNormalization(zones) ==
  \E i \in DOMAIN zones :
    zones[i].t = "str" /\ includes(toLowerCase(zones[i].v), <<"z","o","n","e">>)

\* normalizeZoneFormat: zone.toLowerCase() throws a TypeError on an element
\* that is not a string
normalizeZoneFormat(zones) ==
  IF \E i \in DOMAIN zones : zones[i].t # "str"
  THEN [threw |-> TRUE, value |-> <<>>]
  ELSE [threw |-> FALSE,
        value |-> [i \in DOMAIN zones |->
                     Str(trim(ReplaceFirst(ReplaceFirst(ReplaceFirst(
                           toLowerCase(zones[i].v), <<"z","o","n","e">>), <<"-">>), <<" ">>)))]]

\* analyzeZoneFormat (audit driver)
analyzeZoneFormat(existingZones) ==
  IF existingZones = None \/ existingZones = Some(<<>>) THEN "none"
  ELSE LET zones == existingZones[1]
           hasOldFormat == \E i \in DOMAIN zones :
             zones[i].t = "str" /\ includes(toLowerCase(zones[i].v), <<"z","o","n","e">>)
           hasNewFormat == \E i \in DOMAIN zones :
             zones[i].t = "str" /\ ~includes(toLowerCase(zones[i].v), <<"z","o","n","e">>)
       IN IF hasOldFormat /\ hasNewFormat THEN "mixed"
          ELSE IF hasOldFormat THEN "old"
          ELSE "new"

\* setTimeout(resolve, 550): the rate-limit delay in milliseconds
DelayMs == 550

\* A request to the admin API, issued at time `at`; `outcome` is "pending"
\* until its response
Request(kind, productId, zones) ==
  [kind |-> kind, product |-> productId, zones |-> zones, outcome |-> "pending",
   at |-> clock]

\* Mutant: the mutation is sent in dry-run mode too
updateProductZones_NoDryRunCheck(config, product, zones) ==
  [sends |-> Some(Request("mutation", product.id, zones))]

\* updateProductZones up to its await: with --dry-run it returns
\* { success: true, dryRun: true } and sends nothing, otherwise it sends the
\* productUpdate mutation carrying the zones
updateProductZones(config, product, zones) ==
  IF config.dryRun
  THEN [sends |-> None]
  ELSE [sends |-> Some(Request("mutation", product.id, zones))]

\* The first two lines of the loop body, for each title a product of the
\* pool carries:
\*   const plantName = extractPlantName(product.title);
\*   const lookup = lookupZones(plantName);
MatchOfName(plantName) ==
  [plantName |-> plantName, lookup |-> lookupZones(plantDatabase, plantName)]
MatchOf ==
  [title \in {p.title : p \in ProductPool} |-> MatchOfName(extractPlantName(title))]

\* What the rest of main's loop body does with one product before any
\* write: the branch it takes, the zones it would write and the entry it
\* would push
StepWith(config, product, plantName, lookup) ==
  LET hasZones == product.existingZones # None /\ Len(product.existingZones[1]) > 0
  IN IF hasZones
     THEN IF config.normalize /\ needsNormalization(product.existingZones[1])
          THEN LET normalizedZones == normalizeZoneFormat(product.existingZones[1])
               IN IF normalizedZones.threw
                  THEN [branch |-> "throw", zones |-> None, list |-> "none", entry |-> <<>>]
                  ELSE [branch |-> "write", zones |-> Some(normalizedZones.value),
                        list |-> "normalized",
                        entry |-> [title |-> product.title,
                                   oldZones |-> product.existingZones[1],
                                   newZones |-> normalizedZones.value]]
          ELSE [branch |-> "push", zones |-> None, list |-> "skipped",
                entry |-> [title |-> product.title, reason |-> "Already has zones",
                           existingZones |-> product.existingZones[1]]]
     ELSE IF lookup = None
     THEN [branch |-> "push", zones |-> None, list |-> "notFound",
           entry |-> [title |-> product.title, extractedName |-> plantName]]
     ELSE [branch |-> "write", zones |-> lookup[1].zones, list |-> "updated",
           entry |-> [title |-> product.title, zones |-> lookup[1].zones,
                      matchType |-> lookup[1].matchType,
                      matchedKey |-> lookup[1].matchedKey]]

StepOf(config, product, match) ==
  StepWith(config, product, match.plantName, match.lookup)

\* The loop body for one product, up to its write
Step(config, product) == StepOf(config, product, MatchOf[product.title])

\* results.<list>.push(entry)
Push(res, list, entry) == [res EXCEPT ![list] = Append(@, entry)]

\* The error of the --verbose log line that follows results.updated.push:
\* `lookup.zones.join(', ')` throws inside the try block when the match has
\* no zones (<<>> when nothing is thrown)
JoinError == "Cannot read properties of undefined (reading 'join')"
logThrows(config, step) ==
  IF config.verbose /\ step.list = "updated" /\ step.zones = None
  THEN Some(JoinError)
  ELSE None

\* The try block after `await updateProductZones(...)` returned: the push to
\* normalized / updated, then the log line; an error thrown there is caught
\* and pushes the product to errors as well
AfterWrite(config, res, product, step) ==
  LET pushed == Push(res, step.list, step.entry)
      thrown == logThrows(config, step)
  IN IF thrown = None THEN pushed
     ELSE Push(pushed, "errors", [title |-> product.title, error |-> thrown[1]])

EmptyResults ==
  [updated |-> <<>>, skipped |-> <<>>, notFound |-> <<>>, normalized |-> <<>>,
   errors |-> <<>>]

EmptyAudit ==
  [noZones |-> <<>>, oldFormat |-> <<>>, newFormat |-> <<>>, mixedFormat |-> <<>>]

\* The audit loop over all products (no await inside it)
RECURSIVE auditResults(_)
auditResults(ps) ==
  IF ps = <<>> THEN EmptyAudit
  ELSE LET n == Len(ps)
           format == analyzeZoneFormat(ps[n].existingZones)
           list == CASE format = "none" -> "noZones"
                     [] format = "old" -> "oldFormat"
                     [] format = "new" -> "newFormat"
                     [] format = "mixed" -> "mixedFormat"
       IN Push(auditResults(SubSeq(ps, 1, n - 1)), list, ps[n])

\* The object written to zone-update-report.json
Report(config, ps, res) ==
  [dryRun |-> config.dryRun,
   summary |-> [total |-> Len(ps), updated |-> Len(res.updated),
                normalized |-> Len(res.normalized), skipped |-> Len(res.skipped),
                notFound |-> Len(res.notFound), errors |-> Len(res.errors)],
   details |-> res]


----------------------------------------------------------------------------
(* Sync and audit drivers: main()                                          *)
(* The state is the one after module load: CONFIG read from the            *)
(* environment and the flags, plantDatabase loaded.  Console output other  *)
(* than what reaches stderr on a fatal path is not modelled; of --verbose  *)
(* only the log line that can throw is.                                    *)

Environments == SUBSET {"SHOPIFY_STORE_DOMAIN", "SHOPIFY_ADMIN_API_TOKEN"}

DriverStart(which) ==
  /\ driver \in which
  /\ env \in Environments
  /\ CONFIG \in [dryRun : BOOLEAN, normalize : BOOLEAN, verbose : BOOLEAN]
  /\ driver = "audit" =>
       CONFIG = [dryRun |-> FALSE, normalize |-> FALSE, verbose |-> FALSE]
  /\ catalog \in Catalogs
  /\ served = 0
  /\ pc = "main"
  /\ products = <<>>
  /\ idx = 0
  /\ results = <<>>
  /\ requests = <<>>
  /\ pending = None
  /\ stderr = <<>>
  /\ report = None
  /\ exitCode = None
  /\ clock = 0

\* process.exit(1) after console.error of the given lines
Exit1(lines) ==
  /\ pc' = "exited"
  /\ exitCode' = Some(1)
  /\ stderr' = stderr \o lines

\* validateConfig(); of main, in both drivers
ValidateConfig ==
  /\ pc = "main"
  /\ LET missing == validateConfig(env)
     IN IF missing # <<>>
        THEN Exit1(<<"Missing required environment variables:">> \o missing)
        ELSE pc' = "fetch" /\ UNCHANGED <<stderr, exitCode>>
  /\ UNCHANGED <<clock, driver, env, CONFIG, catalog, served, products, idx, results,
                 requests, pending, report>>

\* Mutant: the query is issued without awaiting its response
FetchPage_NoAwait ==
  /\ pc = "fetch"
  /\ Len(requests) < MaxProducts + 1
  /\ requests' = Append(requests, Request("query", 0, None))
  /\ pending' = Some(Len(requests) + 1)
  /\ pc' = IF requests = <<>> THEN "fetch" ELSE "awaitPage"
  /\ UNCHANGED <<clock, driver, env, CONFIG, catalog, served, products, idx, results,
                 stderr, report, exitCode>>

\* fetchAllProducts: `await shopifyGraphQL(query, { cursor })` issues the
\* product-listing query for the next page
FetchPage ==
  /\ pc = "fetch"
  /\ requests' = Append(requests, Request("query", 0, None))
  /\ pending' = Some(Len(requests) + 1)
  /\ pc' = "awaitPage"
  /\ UNCHANGED <<clock, driver, env, CONFIG, catalog, served, products, idx, results,
                 stderr, report, exitCode>>

\* The page arrives with the next n products of the shop (at most PageSize):
\* each is pushed, and the loop goes on while pageInfo.hasNextPage.  A
\* metafield value the sync driver cannot parse ends the run in main().catch.
PageArrives(n) ==
  /\ pc = "awaitPage"
  /\ n <= PageSize
  /\ n <= Len(catalog) - served
  /\ n >= (IF Len(catalog) = served THEN 0 ELSE 1)
  /\ LET fetched == [i \in 1..n |-> fetchedProduct(driver, served + i, catalog[served + i])]
         hasNextPage == served + n < Len(catalog)
     IN /\ requests' = [requests EXCEPT ![pending[1]].outcome = "ok"]
        /\ pending' = None
        /\ IF \E i \in 1..n : fetched[i].threw
           THEN /\ Exit1(<<"Fatal error: Unexpected token in JSON">>)
                /\ UNCHANGED <<served, products, idx, results>>
           ELSE /\ products' = products \o [i \in 1..n |-> fetched[i].product]
                /\ served' = served + n
                /\ UNCHANGED <<stderr, exitCode>>
                /\ IF hasNextPage
                   THEN pc' = "fetch" /\ UNCHANGED <<idx, results>>
                   ELSE IF driver = "sync"
                   THEN pc' = "loop" /\ idx' = 1 /\ results' = EmptyResults
                   ELSE pc' = "classify" /\ UNCHANGED <<idx, results>>
  /\ UNCHANGED <<clock, driver, env, CONFIG, catalog, report>>

\* Mutant: a failed page is swallowed and the loop starts on what was fetched
PageFails_Swallowed(failure) ==
  /\ pc = "awaitPage"
  /\ requests' = [requests EXCEPT ![pending[1]].outcome = failure]
  /\ pending' = None
  /\ pc' = IF driver = "sync" THEN "loop" ELSE "classify"
  /\ idx' = 1
  /\ results' = EmptyResults
  /\ UNCHANGED <<clock, driver, env, CONFIG, catalog, served, products, stderr, exitCode, report>>

\* shopifyGraphQL throws on a non-2xx status or a GraphQL errors payload:
\* during pagination nothing catches it before main().catch
PageFails(failure) ==
  /\ pc = "awaitPage"
  /\ requests' = [requests EXCEPT ![pending[1]].outcome = failure]
  /\ pending' = None
  /\ Exit1(<<"Fatal error: " \o failure>>)
  /\ UNCHANGED <<clock, driver, env, CONFIG, catalog, served, products, idx, results, report>>

\* One iteration of main's `for (const product of products)` up to its first
\* await (or to its `continue`)
ProcessProduct ==
  /\ driver = "sync"
  /\ pc = "loop"
  /\ idx <= Len(products)
  /\ LET product == products[idx]
         step == Step(CONFIG, product)
     IN CASE step.branch = "throw" ->
               \* normalizeZoneFormat threw outside the try block
               /\ Exit1(<<"Fatal error: zone.toLowerCase is not a function">>)
               /\ UNCHANGED <<idx, results, requests, pending>>
          [] step.branch = "push" ->
               /\ results' = Push(results, step.list, step.entry)
               /\ idx' = idx + 1
               /\ UNCHANGED <<pc, requests, pending, stderr, exitCode>>
          [] step.branch = "write" ->
               LET call == updateProductZones(CONFIG, product, step.zones)
               IN IF call.sends = None
                  THEN /\ results' = AfterWrite(CONFIG, results, product, step)
                       /\ IF logThrows(CONFIG, step) = None
                          THEN pc' = "delay" /\ UNCHANGED idx
                          ELSE pc' = "loop" /\ idx' = idx + 1
                       /\ UNCHANGED <<requests, pending, stderr, exitCode>>
                  ELSE /\ requests' = Append(requests, call.sends[1])
                       /\ pending' = Some(Len(requests) + 1)
                       /\ pc' = "awaitWrite"
                       /\ UNCHANGED <<idx, results, stderr, exitCode>>
  /\ UNCHANGED <<clock, driver, env, CONFIG, catalog, served, products, report>>

\* The mutation succeeded: the product is pushed to normalized / updated and
\* the rate-limit delay starts, unless the log line throws into the catch block
WriteSucceeds ==
  /\ pc = "awaitWrite"
  /\ LET step == Step(CONFIG, products[idx])
     IN /\ results' = AfterWrite(CONFIG, results, products[idx], step)
        /\ IF logThrows(CONFIG, step) = None
           THEN pc' = "delay" /\ UNCHANGED idx
           ELSE pc' = "loop" /\ idx' = idx + 1
  /\ requests' = [requests EXCEPT ![pending[1]].outcome = "ok"]
  /\ pending' = None
  /\ UNCHANGED <<clock, driver, env, CONFIG, catalog, served, products, stderr,
                 report, exitCode>>

\* The mutation failed (non-2xx status, GraphQL errors, or userErrors): the
\* catch block pushes the product to errors and the loop goes on
WriteFails(failure) ==
  /\ pc = "awaitWrite"
  /\ results' = Push(results, "errors",
                     [title |-> products[idx].title, error |-> failure])
  /\ requests' = [requests EXCEPT ![pending[1]].outcome = failure]
  /\ pending' = None
  /\ idx' = idx + 1
  /\ pc' = "loop"
  /\ UNCHANGED <<clock, driver, env, CONFIG, catalog, served, products, stderr,
                 report, exitCode>>

\* await new Promise(resolve => setTimeout(resolve, 550)) has elapsed
DelayElapsed ==
  /\ pc = "delay"
  /\ clock' = clock + DelayMs
  /\ idx' = idx + 1
  /\ pc' = "loop"
  /\ UNCHANGED <<driver, env, CONFIG, catalog, served, products, results,
                 requests, pending, stderr, report, exitCode>>

\* After the loop: the summary is printed and the report file written
SaveReport ==
  /\ driver = "sync"
  /\ pc = "loop"
  /\ idx > Len(products)
  /\ report' = Some(Report(CONFIG, products, results))
  /\ pc' = "done"
  /\ exitCode' = Some(0)
  /\ UNCHANGED <<clock, driver, env, CONFIG, catalog, served, products, idx, results,
                 requests, pending, stderr>>

\* The audit driver's classification loop and summary
AuditClassify ==
  /\ driver = "audit"
  /\ pc = "classify"
  /\ results' = auditResults(products)
  /\ idx' = Len(products) + 1
  /\ pc' = "done"
  /\ exitCode' = Some(0)
  /\ UNCHANGED <<clock, driver, env, CONFIG, catalog, served, products, requests,
                 pending, stderr, report>>

ApiFailures == {"Shopify API error: 500", "GraphQL errors"}
WriteFailures == ApiFailures \cup {"userErrors"}


----------------------------------------------------------------------------
(* analyzeZoneFormat applied to one zones value, as the audit loop does    *)

MaxZones == 3

\* A span of zones written in the old format: "zone 5-zone 9"
ZoneRange == <<"z","o","n","e"," ","5","-","z","o","n","e"," ","9">>

\* The elements the zones lists are made of: old format, new format, old
\* format in other letter case, a span in the old format, and a value that
\* is not a string
ZoneElements == { Str(Zone7Old), Str(Zone7New), Str(<<"Z","O","N","E"," ","5">>),
                  Str(ZoneRange), Num(Zone7New) }

\* product.existingZones: null, or a list of at most MaxZones elements
ZonesValues ==
  {None} \cup {Some(l) : l \in UNION {[1..n -> ZoneElements] : n \in 0..MaxZones}}

AnalysisStart ==
  /\ aPc = "zones"
  /\ aZones \in ZonesValues
  /\ aFormat = "idle"
  /\ aNeeds = None
  /\ aNormalized = None
  /\ aAgain = None

\* const format = analyzeZoneFormat(product.existingZones);
Analyze ==
  /\ aPc = "zones"
  /\ aFormat' = analyzeZoneFormat(aZones)
  /\ aPc' = "analyzed"
  /\ UNCHANGED <<aZones, aNeeds, aNormalized, aAgain>>

\* The sync driver reaching a product that has zones, under --normalize:
\*   if (CONFIG.normalize && needsNormalization(product.existingZones))
NeedsCheck ==
  /\ aNeeds = None
  /\ aZones # None /\ aZones # Some(<<>>)
  /\ aNeeds' = Some(needsNormalization(aZones[1]))
  /\ UNCHANGED <<aPc, aZones, aFormat, aNormalized, aAgain>>

\* const normalizedZones = normalizeZoneFormat(product.existingZones);
Normalize ==
  /\ aNeeds = Some(TRUE)
  /\ aNormalized = None
  /\ aNormalized' = Some(normalizeZoneFormat(aZones[1]))
  /\ UNCHANGED <<aPc, aZones, aFormat, aNeeds, aAgain>>

\* The next --normalize run reaching the product, whose metafield now holds
\* the list the earlier run wrote
CheckAgain ==
  /\ aNormalized # None
  /\ ~aNormalized[1].threw
  /\ aAgain = None
  /\ aAgain' = Some(needsNormalization(aNormalized[1].value))
  /\ UNCHANGED <<aPc, aZones, aFormat, aNeeds, aNormalized>>

----------------------------------------------------------------------------
(* Zone-selector widget: the ZIP field, its submission, local storage      *)

MaxSubmits == 2

\* e.target.value.replace(/\D/g, '').substring(0, 5)
digitsOnly(text) ==
  LET digits == SelectSeq(text, IsDigit)
  IN SubSeq(digits, 1, Min({5, Len(digits)}))

\* What the ZIP field can hold when the listeners are attached (typed before
\* the script ran, restored by the browser, or preset by the page) and what
\* the user's edits leave in it before the input listener runs
FieldTexts == { <<>>, <<"9","6","7","0","1">>, <<"9","6","7","a","b">>,
                <<"0","0","0","0","0">>, <<"0","1","0","0">>,
                <<" ","1","0","0","0","1"," ">> }

WidgetStart ==
  /\ wValue \in FieldTexts
  /\ wStorage = None
  /\ wThrows \in BOOLEAN
  /\ wError = None
  /\ wWrites = <<>>
  /\ wEvents = <<>>
  /\ wSubs = <<>>

InvalidZipMessage == "Please enter a valid 5-digit ZIP code."
NotFoundMessage == "We couldn't find zone data for that ZIP code. Please try another."

\* The 'input' listener of the ZIP field: only digits are kept, at most
\* five, and the error is hidden
InputEvent(text) ==
  /\ wValue' = digitsOnly(text)
  /\ wError' = None
  /\ wValue' # wValue \/ wError # None
  /\ UNCHANGED <<wStorage, wThrows, wWrites, wEvents, wSubs>>

\* if (!zipCode || zipCode.length !== 5)
zipRejected(zipCode) == zipCode = <<>> \/ Len(zipCode) # 5

\* handleZipSubmit (Enter in the field, or a click on the submit button) up
\* to its await: the trimmed value is refused unless it has length 5,
\* otherwise getZoneFromZip is called with it
HandleZipSubmit ==
  /\ Len(wSubs) < MaxSubmits
  /\ LET zipCode == trim(wValue)
     IN IF zipRejected(zipCode)
        THEN /\ wError' = Some(InvalidZipMessage)
             /\ wSubs' = Append(wSubs, [zip |-> zipCode, call |-> 0, outcome |-> "invalid"])
             /\ UNCHANGED resolverVars
        ELSE /\ GetZoneFromZip(zipCode)
             /\ wSubs' = Append(wSubs, [zip |-> zipCode, call |-> Len(zCalls) + 1,
                                        outcome |-> "awaiting"])
             /\ UNCHANGED wError
  /\ UNCHANGED <<wValue, wStorage, wThrows, wWrites, wEvents>>

\* saveZone: both setItem calls, inside a try block that swallows a throw
saveZone(storage, throws, entry) == IF throws THEN storage ELSE Some(entry)

\* handleZipSubmit after `await getZoneFromZip(zipCode)`: with a zone it is
\* saved, shown and announced; without one the error is shown
ResumeZipSubmit(k) ==
  /\ wSubs[k].outcome = "awaiting"
  /\ zCalls[wSubs[k].call].state \in {"fulfilled", "rejected"}
  /\ LET call == zCalls[wSubs[k].call]
         zoneData == call.value
     IN IF call.state = "rejected"
        THEN /\ wSubs' = [wSubs EXCEPT ![k].outcome = "rejected"]
             /\ UNCHANGED <<wStorage, wError, wWrites, wEvents>>
        ELSE IF zoneData # None
        THEN LET entry == [zipCode |-> wSubs[k].zip, zone |-> zoneData[1].zone,
                           range |-> zoneData[1].range]
             IN /\ wStorage' = saveZone(wStorage, wThrows, entry)
                /\ wWrites' = IF wThrows THEN wWrites ELSE Append(wWrites, entry)
                /\ wEvents' = Append(wEvents, entry)
                /\ wSubs' = [wSubs EXCEPT ![k].outcome = "saved"]
                /\ UNCHANGED wError
        ELSE /\ wError' = Some(NotFoundMessage)
             /\ wSubs' = [wSubs EXCEPT ![k].outcome = "notFound"]
             /\ UNCHANGED <<wStorage, wWrites, wEvents>>
  /\ UNCHANGED <<wValue, wThrows>>

\* A click on the change button: clearSavedZone
ChangeZone ==
  /\ wStorage # None
  /\ wStorage' = None
  /\ UNCHANGED <<wValue, wThrows, wError, wWrites, wEvents, wSubs>>

----------------------------------------------------------------------------
(* Predictive search drawer (PredictiveSearch of predictive-search.js)     *)

MaxTicks == 6
MaxLog == 3

DEBOUNCE_DELAY == 300
MIN_QUERY_LENGTH == 2

\* What the search field can hold after an input event
SearchTexts == { <<"a">>, <<" ", "a", " ">>, <<"a", "b">>,
                 <<"a", "b", "c", " ">> }

\* The fetches whose response has neither arrived nor been aborted
InFlight(fetches) == {i \in DOMAIN fetches : fetches[i].state = "inflight"}

\* AbortController.abort() of the controller held in this.abortController:
\* only a fetch still in flight is affected
abort(controller, fetches) ==
  IF controller # None /\ fetches[controller[1]].state = "inflight"
  THEN [fetches EXCEPT ![controller[1]].state = "aborted"]
  ELSE fetches

\* clearTimeout(id): a fired or cleared id is ignored
clearTimeout(timer, timers) ==
  IF timer = None THEN timers ELSE {t \in timers : t.id # timer[1]}

\* One entry of the log: an event handled, or a request issued
LogEntry(ev, query, before, after) ==
  [ev |-> ev, at |-> sClock, query |-> query,
   inflight |-> InFlight(before),
   aborted |-> {i \in InFlight(before) : after[i].state = "aborted"}]

\* The passage of 100 ms
Advance ==
  /\ sClock < MaxTicks * 100
  /\ sClock' = sClock + 100
  /\ UNCHANGED <<sValue, isOpen, debounceTimer, abortController, sTimers,
                 sFetches, sShown, sLog>>

\* open(), from a click on the toggle
open ==
  /\ Len(sLog) < MaxLog
  /\ isOpen' = TRUE
  /\ sLog' = Append(sLog, LogEntry("open", None, sFetches, sFetches))
  /\ UNCHANGED <<sValue, debounceTimer, abortController, sClock, sTimers,
                 sFetches, sShown>>

\* close(), from a click on a close button or the Escape key: aborts the
\* controller, clears the debounce timer, and resets the drawer 300 ms later
close ==
  /\ Len(sLog) < MaxLog
  /\ isOpen' = FALSE
  /\ sFetches' = abort(abortController, sFetches)
  /\ sTimers' = clearTimeout(debounceTimer, sTimers) \cup
                  { [id |-> Len(sLog) + 1, kind |-> "reset", query |-> None,
                     due |-> sClock + 300] }
  /\ sLog' = Append(sLog, LogEntry("close", None, sFetches, sFetches'))
  /\ UNCHANGED <<sValue, debounceTimer, abortController, sClock, sShown>>

\* The setTimeout of handleInput without the clearTimeout before it
handleInput_NoClear(query, timers) ==
  IF Len(query) < MIN_QUERY_LENGTH
  THEN [timers |-> timers, timer |-> debounceTimer, shown |-> "hidden"]
  ELSE [timers |-> timers \cup
                     { [id |-> Len(sLog) + 1, kind |-> "debounce",
                        query |-> Some(query),
                        due |-> sClock + DEBOUNCE_DELAY] },
        timer |-> Some(Len(sLog) + 1), shown |-> sShown]

\* handleInput() once input.value is read and trimmed: the timer table,
\* this.debounceTimer and the results area it leaves
handleInput(query, timers) ==
  handleInput_NoClear(query, clearTimeout(debounceTimer, timers))

\* An input event on the search field
SearchInput(text) ==
  /\ Len(sLog) < MaxLog
  /\ sValue' = text
  /\ LET h == handleInput(trim(text), sTimers)
     IN /\ sTimers' = h.timers
        /\ debounceTimer' = h.timer
        /\ sShown' = h.shown
  /\ sLog' = Append(sLog, LogEntry("input", Some(trim(text)), sFetches,
                                   sFetches))
  /\ UNCHANGED <<isOpen, abortController, sClock, sFetches>>

\* search(query) up to its await: abort the previous controller, issue the
\* fetch under a new one, show the loading state
search(query) ==
  /\ sFetches' = Append(abort(abortController, sFetches),
                        [query |-> query, at |-> sClock,
                         state |-> "inflight"])
  /\ abortController' = Some(Len(sFetches) + 1)
  /\ sShown' = "loading"
  /\ sLog' = Append(sLog, LogEntry("request", Some(query), sFetches,
                                   sFetches'))
  /\ UNCHANGED <<sValue, isOpen, debounceTimer>>

\* A setTimeout callback runs, at or after the time it is due
TimerFires(t) ==
  /\ t \in sTimers
  /\ t.due <= sClock
  /\ sTimers' = sTimers \ {t}
  /\ UNCHANGED sClock
  /\ IF t.kind = "debounce"
     THEN search(t.query[1])
     ELSE /\ sShown' = "hidden"
          /\ sValue' = <<>>
          /\ UNCHANGED <<isOpen, debounceTimer, abortController, sFetches,
                         sLog>>

\* Mutant: the catch block without its AbortError check
AbortSettles_NoCheck(i) ==
  /\ i \in DOMAIN sFetches
  /\ sFetches[i].state = "aborted"
  /\ sFetches' = [sFetches EXCEPT ![i].state = "cancelled"]
  /\ sShown' = "noResults"
  /\ UNCHANGED <<sValue, isOpen, debounceTimer, abortController, sClock,
                 sTimers, sLog>>

\* The fetch of an aborted request rejects with an AbortError: the catch
\* block of search() returns at once
AbortSettles(i) ==
  /\ i \in DOMAIN sFetches
  /\ sFetches[i].state = "aborted"
  /\ sFetches' = [sFetches EXCEPT ![i].state = "cancelled"]
  /\ UNCHANGED <<sValue, isOpen, debounceTimer, abortController, sClock,
                 sTimers, sShown, sLog>>

\* The response of fetch i arrives: search() resumes after its await
SearchResponse(i, outcome) ==
  /\ i \in InFlight(sFetches)
  /\ sFetches' = [sFetches EXCEPT ![i].state = outcome]
  /\ sShown' = IF outcome = "results" THEN "results" ELSE "noResults"
  /\ UNCHANGED <<sValue, isOpen, debounceTimer, abortController, sClock,
                 sTimers, sLog>>

----------------------------------------------------------------------------
(* Zone lookup test suite (testCases, getZoneFromLookup, runTests)         *)

\* The test cases, in file order (city and region are only printed)
testCases == <<
  [zip |-> <<"0","1","0","0","1">>, expectedZone |-> "6a"],
  [zip |-> <<"1","0","0","0","1">>, expectedZone |-> "7b"],
  [zip |-> <<"0","2","1","0","1">>, expectedZone |-> "7a"],
  [zip |-> <<"0","5","4","0","1">>, expectedZone |-> "5a"],
  [zip |-> <<"0","4","4","0","1">>, expectedZone |-> "5a"],
  [zip |-> <<"3","2","8","0","1">>, expectedZone |-> "10a"],
  [zip |-> <<"3","3","1","0","1">>, expectedZone |-> "11a"],
  [zip |-> <<"3","0","3","0","1">>, expectedZone |-> "8a"],
  [zip |-> <<"2","7","6","0","1">>, expectedZone |-> "8a"],
  [zip |-> <<"2","9","4","0","1">>, expectedZone |-> "9a"],
  [zip |-> <<"6","0","6","0","1">>, expectedZone |-> "6a"],
  [zip |-> <<"5","5","4","0","1">>, expectedZone |-> "5a"],
  [zip |-> <<"4","8","2","0","1">>, expectedZone |-> "6b"],
  [zip |-> <<"4","3","2","0","1">>, expectedZone |-> "6b"],
  [zip |-> <<"4","6","2","0","1">>, expectedZone |-> "6b"],
  [zip |-> <<"8","5","0","0","1">>, expectedZone |-> "10a"],
  [zip |-> <<"8","7","5","0","1">>, expectedZone |-> "6b"],
  [zip |-> <<"8","9","1","0","1">>, expectedZone |-> "9b"],
  [zip |-> <<"7","9","9","0","1">>, expectedZone |-> "8b"],
  [zip |-> <<"7","5","2","0","1">>, expectedZone |-> "8b"],
  [zip |-> <<"7","7","0","0","1">>, expectedZone |-> "9b"],
  [zip |-> <<"7","8","2","0","1">>, expectedZone |-> "9a"],
  [zip |-> <<"7","3","3","0","1">>, expectedZone |-> "9a"],
  [zip |-> <<"8","0","2","0","1">>, expectedZone |-> "6a"],
  [zip |-> <<"8","4","1","0","1">>, expectedZone |-> "7b"],
  [zip |-> <<"5","9","6","0","1">>, expectedZone |-> "4b"],
  [zip |-> <<"8","2","0","0","1">>, expectedZone |-> "5b"],
  [zip |-> <<"9","8","1","0","1">>, expectedZone |-> "9a"],
  [zip |-> <<"9","7","2","0","1">>, expectedZone |-> "9a"],
  [zip |-> <<"9","9","2","0","1">>, expectedZone |-> "7a"],
  [zip |-> <<"9","0","0","0","1">>, expectedZone |-> "10b"],
  [zip |-> <<"9","4","1","0","2">>, expectedZone |-> "10b"],
  [zip |-> <<"9","2","1","0","1">>, expectedZone |-> "10b"],
  [zip |-> <<"9","5","8","1","4">>, expectedZone |-> "9b"],
  [zip |-> <<"9","9","5","0","1">>, expectedZone |-> "5a"],
  [zip |-> <<"9","9","7","0","1">>, expectedZone |-> "2a"],
  [zip |-> <<"9","9","8","0","1">>, expectedZone |-> "7a"],
  [zip |-> <<"9","6","7","0","1">>, expectedZone |-> "12b"],
  [zip |-> <<"9","6","7","2","0">>, expectedZone |-> "12b"],
  [zip |-> <<"9","6","7","4","0">>, expectedZone |-> "12b"] >>

\* Mutant: the key is taken from the last three characters of the ZIP
getZoneFromLookup_LastThree(table, zipCode) ==
  ObjectGet(table, zipPrefix_LastThree(zipCode))

\* getZoneFromLookup: lookupTable[zipCode.substring(0, 3)] || null
getZoneFromLookup(table, zipCode) == ObjectGet(table, zipPrefix(zipCode))

\* What the source CSV files can hold for the ZIP of a test case: nothing,
\* the expected zone, or another zone
SourceZones(test) == {None, Some(test.expectedZone), Some("1a")}

TestStart ==
  /\ tFiles \in [table : BOOLEAN, csv : BOOLEAN]
  /\ tPc = "load"
  /\ tIdx = 0
  /\ passed = 0
  /\ failed = 0
  /\ failures = <<>>
  /\ matches = 0
  /\ mismatches = 0
  /\ tExit = None

\* runTests loads the lookup table and the CSV files: a missing file ends
\* the process with code 1
LoadData ==
  /\ tPc = "load"
  /\ IF tFiles.table /\ tFiles.csv
     THEN /\ tPc' = "tests"
          /\ tIdx' = 1
          /\ UNCHANGED tExit
     ELSE /\ tPc' = "done"
          /\ tExit' = Some(1)
          /\ UNCHANGED tIdx
  /\ UNCHANGED <<tFiles, passed, failed, failures, matches, mismatches>>

\* One iteration of the first loop of runTests
RunTest ==
  /\ tPc = "tests"
  /\ LET test == testCases[tIdx]
         lookupZone == getZoneFromLookup(CompiledTable, test.zip)
         lookupPass == lookupZone = Some(test.expectedZone)
     IN IF lookupPass
        THEN /\ passed' = passed + 1
             /\ UNCHANGED <<failed, failures>>
        ELSE /\ failed' = failed + 1
             /\ failures' = Append(failures, [zip |-> test.zip,
                                              lookupZone |-> lookupZone])
             /\ UNCHANGED passed
  /\ IF tIdx < Len(testCases)
     THEN /\ tIdx' = tIdx + 1
          /\ UNCHANGED tPc
     ELSE /\ tIdx' = 1
          /\ tPc' = "compare"
  /\ UNCHANGED <<tFiles, matches, mismatches, tExit>>

\* One iteration of the cross-reference loop of runTests
CompareTest ==
  /\ tPc = "compare"
  /\ \E sourceZone \in SourceZones(testCases[tIdx]) :
       IF getZoneFromLookup(CompiledTable, testCases[tIdx].zip) = sourceZone
       THEN /\ matches' = matches + 1
            /\ UNCHANGED mismatches
       ELSE /\ mismatches' = mismatches + 1
            /\ UNCHANGED matches
  /\ IF tIdx < Len(testCases)
     THEN /\ tIdx' = tIdx + 1
          /\ UNCHANGED tPc
     ELSE /\ UNCHANGED tIdx
          /\ tPc' = "summary"
  /\ UNCHANGED <<tFiles, passed, failed, failures, tExit>>

\* return failed === 0 ? 0 : 1; process.exit(exitCode)
TestExit ==
  /\ tPc = "summary"
  /\ tPc' = "done"
  /\ tExit' = Some(IF failed = 0 THEN 0 ELSE 1)
  /\ UNCHANGED <<tFiles, tIdx, passed, failed, failures, matches,
                 mismatches>>

----------------------------------------------------------------------------
(* Shop-by-zone page (ShopByZone) next to the zone selector: local storage *)
(* A number held in storage or in an event is written by its decimal       *)
(* digits, which is what JSON, setItem and parseInt make of it.            *)

DigitChars == <<"0","1","2","3","4","5","6","7","8","9">>
DigitValue(c) == (CHOOSE i \in DOMAIN DigitChars : DigitChars[i] = c) - 1

RECURSIVE Decimal(_)
Decimal(digits) ==
  IF digits = <<>> THEN 0
  ELSE Decimal(SubSeq(digits, 1, Len(digits) - 1)) * 10 + DigitValue(digits[Len(digits)])

\* parseInt(value): the leading run of digits of the trimmed text, <<>> for
\* NaN when there is none
parseInt(value) ==
  LET s == trim(value)
      stops == {i \in DOMAIN s : ~IsDigit(s[i])}
      n == IF stops = {} THEN Len(s) ELSE Min(stops) - 1
  IN IF n = 0 THEN None ELSE Some(Decimal(SubSeq(s, 1, n)))

\* String(n) of a non-negative integer
RECURSIVE String(_)
String(n) ==
  IF n < 10 THEN <<DigitChars[n + 1]>>
  ELSE String(n \div 10) \o <<DigitChars[(n % 10) + 1]>>

\* The characters of each zone code of the prefix table of zone-selector.js
ZoneCodeTexts ==
  LET A == {"0","1","2","3","4","5","6","7","8","9","a","b"}
  IN [1..2 -> A] \cup [1..3 -> A]
Characters ==
  [code \in {p[2] : p \in zipToZone_740_999} |->
     CHOOSE s \in ZoneCodeTexts : Text(s) = code]

\* ShopByZone.tempRanges
tempRanges == {
  <<3, "-40 to -30">>, <<4, "-30 to -20">>, <<5, "-20 to -10">>,
  <<6, "-10 to 0">>, <<7, "0 to 10">>, <<8, "10 to 20">>,
  <<9, "20 to 30">>, <<10, "30 to 40">>, <<11, "40 to 50">> }

\* this.tempRanges[zone] + '°F', zone a number (<<>> for NaN)
tempOf(zone) ==
  LET range == IF zone = None THEN None ELSE ObjectGet(tempRanges, zone[1])
  IN (IF range = None THEN "undefined" ELSE range[1]) \o "°F"

\* approximateZoneFromZip: the first range of zoneMap holding the prefix,
\* zone 7 when none does
zoneMap == <<
  [min |-> 995, max |-> 999, zone |-> 4], [min |-> 967, max |-> 968, zone |-> 11],
  [min |-> 900, max |-> 935, zone |-> 9], [min |-> 850, max |-> 865, zone |-> 8],
  [min |-> 750, max |-> 799, zone |-> 8], [min |-> 700, max |-> 714, zone |-> 9],
  [min |-> 320, max |-> 349, zone |-> 9], [min |-> 300, max |-> 319, zone |-> 8],
  [min |-> 270, max |-> 289, zone |-> 7], [min |-> 220, max |-> 246, zone |-> 7],
  [min |-> 200, max |-> 219, zone |-> 7], [min |-> 150, max |-> 196, zone |-> 6],
  [min |-> 100, max |-> 149, zone |-> 6], [min |-> 10, max |-> 69, zone |-> 5],
  [min |-> 570, max |-> 588, zone |-> 4], [min |-> 590, max |-> 599, zone |-> 4],
  [min |-> 800, max |-> 816, zone |-> 5], [min |-> 970, max |-> 979, zone |-> 6],
  [min |-> 980, max |-> 994, zone |-> 6] >>
approximateZoneFromZip(zip) ==
  LET prefix == parseInt(SubSeq(zip, 1, 3))
      hits == {i \in DOMAIN zoneMap :
                 /\ prefix # None
                 /\ prefix[1] >= zoneMap[i].min
                 /\ prefix[1] <= zoneMap[i].max}
  IN IF hits = {} THEN 7 ELSE zoneMap[Min(hits)].zone

\* What the ZIP fields of the page can hold when a lookup is submitted; the
\* valid ones have a prefix in the part of the table that is at hand
ShopZips == { <<"9","6","7","0","1">>, <<"9","9","7","0","1">>,
              <<"9","0","2","1","0">>, <<"8","0","2","0","2">>,
              <<"7","4","0","0","1">>, <<" ","7","5","0","0","1">>,
              <<"1","2","3","4">>, <<"7","5","0","0","a">> }

ShopStart ==
  /\ rooted_elegance_zone = None
  /\ customer_zone = None
  /\ storageThrows \in BOOLEAN
  /\ selectedZone = None
  /\ selectedTemp = None

\* The record either script stores under 'rooted_elegance_zone' (the
\* timestamp and the selector's min, max and label are left out)
SavedRecord(zone, temp, zipCode) == [zone |-> zone, temp |-> temp, zipCode |-> zipCode]

\* The 'zone:changed' listener of ShopByZone.init: detail.zone, when truthy,
\* becomes the selected zone
zoneChanged(zone) ==
  IF zone # None /\ zone[1] # <<>> /\ parseInt(zone[1]) # Some(0)
  THEN /\ selectedZone' = Some(parseInt(zone[1]))
       /\ selectedTemp' = Some(tempOf(parseInt(zone[1])))
  ELSE UNCHANGED <<selectedZone, selectedTemp>>

\* ShopByZone.init on a page load: the saved record, when there is one,
\* gives the selected zone
ShopInit ==
  /\ IF storageThrows \/ rooted_elegance_zone = None
     THEN selectedZone' = None /\ selectedTemp' = None
     ELSE /\ selectedZone' = Some(parseInt(rooted_elegance_zone[1].zone))
          /\ selectedTemp' = Some(tempOf(parseInt(rooted_elegance_zone[1].zone)))
  /\ UNCHANGED <<rooted_elegance_zone, customer_zone, storageThrows>>

\* ShopByZone.saveZone(zone, temp, zipCode) called with selectedZone' and
\* selectedTemp' as its first two arguments: the record is stored and
\* 'zone:changed' dispatched, which the page's own listener receives; a
\* throwing setItem is caught before the dispatch
ShopSaveZone(zone, temp, zipCode) ==
  /\ IF storageThrows
     THEN /\ selectedZone' = Some(zone)
          /\ selectedTemp' = Some(temp)
          /\ UNCHANGED rooted_elegance_zone
     ELSE /\ rooted_elegance_zone' =
               Some(SavedRecord(IF zone = None THEN <<"N","a","N">> ELSE String(zone[1]),
                                Some(temp), Some(zipCode)))
          /\ IF zone # None /\ zone # Some(0)
             THEN /\ selectedZone' = Some(zone)
                  /\ selectedTemp' = Some(tempOf(zone))
             ELSE /\ selectedZone' = Some(zone)
                  /\ selectedTemp' = Some(temp)
  /\ UNCHANGED <<customer_zone, storageThrows>>

\* ShopByZone.lookupZip: a value that is not five digits is refused; the
\* zone comes from ZoneSelector.getZoneFromZip when that is available and
\* returns one, from approximateZoneFromZip otherwise
ShopLookupZip(value, available) ==
  LET zip == trim(value)
      result == IF available THEN zoneFromTable(zipToZone_740_999, zip) ELSE None
  IN /\ Len(zip) = 5
     /\ \A i \in DOMAIN zip : IsDigit(zip[i])
     /\ IF result # None
        THEN LET zone == parseInt(Characters[result[1].zone])
             IN ShopSaveZone(zone, tempOf(zone), zip)
        ELSE LET zone == Some(approximateZoneFromZip(zip))
             IN ShopSaveZone(zone, tempOf(zone), zip)

\* ShopByZone.clearZone: the selection and the saved record are dropped;
\* the 'zone:changed' it dispatches carries zone null
ShopClearZone ==
  /\ selectedZone' = None
  /\ selectedTemp' = None
  /\ rooted_elegance_zone' = IF storageThrows THEN rooted_elegance_zone ELSE None
  /\ UNCHANGED <<customer_zone, storageThrows>>

\* handleZipSubmit of the zone selector on the same page, for a ZIP the
\* resolver knows: saveZone stores both items, then dispatchZoneChange
\* reaches the listener of ShopByZone
ZoneSelectorSubmit(value) ==
  LET zipCode == trim(value)
      zoneData == zoneFromTable(zipToZone_740_999, zipCode)
  IN /\ Len(zipCode) = 5
     /\ zoneData # None
     /\ IF storageThrows
        THEN UNCHANGED <<rooted_elegance_zone, customer_zone>>
        ELSE /\ rooted_elegance_zone' =
                  Some(SavedRecord(Characters[zoneData[1].zone], None, Some(zipCode)))
             /\ customer_zone' = Some(Characters[zoneData[1].zone])
     /\ zoneChanged(Some(Characters[zoneData[1].zone]))
     /\ UNCHANGED storageThrows

\* The change button of the zone selector: clearSavedZone
ZoneSelectorChange ==
  /\ ~storageThrows
  /\ rooted_elegance_zone # None \/ customer_zone # None
  /\ rooted_elegance_zone' = None
  /\ customer_zone' = None
  /\ UNCHANGED <<storageThrows, selectedZone, selectedTemp>>

----------------------------------------------------------------------------
(* Specifications                                                          *)

ResolverIdle ==
  /\ zAsset = "idle"
  /\ zipToZoneData = None
  /\ zipDataPromise = "null"
  /\ zInjected = 0
  /\ zCalls = <<>>

DriverIdle ==
  /\ driver = "idle"
  /\ env = {}
  /\ CONFIG = [dryRun |-> FALSE, normalize |-> FALSE, verbose |-> FALSE]
  /\ catalog = <<>>
  /\ served = 0
  /\ pc = "idle"
  /\ products = <<>>
  /\ idx = 0
  /\ results = <<>>
  /\ requests = <<>>
  /\ pending = None
  /\ stderr = <<>>
  /\ report = None
  /\ exitCode = None
  /\ clock = 0

AnalysisIdle ==
  /\ aPc = "idle"
  /\ aZones = None
  /\ aFormat = "idle"
  /\ aNeeds = None
  /\ aNormalized = None
  /\ aAgain = None

WidgetIdle ==
  /\ wValue = <<>>
  /\ wStorage = None
  /\ wThrows = FALSE
  /\ wError = None
  /\ wWrites = <<>>
  /\ wEvents = <<>>
  /\ wSubs = <<>>

SearchIdle ==
  /\ sValue = <<>>
  /\ isOpen = FALSE
  /\ debounceTimer = None
  /\ abortController = None
  /\ sClock = 0
  /\ sTimers = {}
  /\ sFetches = <<>>
  /\ sShown = "hidden"
  /\ sLog = <<>>

ShopIdle ==
  /\ rooted_elegance_zone = None
  /\ customer_zone = None
  /\ storageThrows = FALSE
  /\ selectedZone = None
  /\ selectedTemp = None

TestIdle ==
  /\ tFiles = [table |-> FALSE, csv |-> FALSE]
  /\ tPc = "idle"
  /\ tIdx = 0
  /\ passed = 0
  /\ failed = 0
  /\ failures = <<>>
  /\ matches = 0
  /\ mismatches = 0
  /\ tExit = None

\* extractPlantName on the clean-up titles, applied once and twice
InitExtract ==
  /\ MatcherStart(TitlesOver(ExtractWords, MaxTitleParts + 1), {<<>>})
  /\ ResolverIdle
  /\ DriverIdle
  /\ AnalysisIdle
  /\ WidgetIdle
  /\ SearchIdle
  /\ TestIdle
  /\ ShopIdle

NextExtract ==
  \/ Extract /\ UNCHANGED notMatcher
  \/ ExtractAgain /\ UNCHANGED notMatcher

SpecExtract == InitExtract /\ [][NextExtract]_vars

\* extractPlantName then lookupZones, on every title and every database
InitMatcher ==
  /\ MatcherStart(TitlesOver(MatchWords, MaxTitleParts), Databases)
  /\ ResolverIdle
  /\ DriverIdle
  /\ AnalysisIdle
  /\ WidgetIdle
  /\ SearchIdle
  /\ TestIdle
  /\ ShopIdle

NextMatcher ==
  \/ Extract /\ UNCHANGED notMatcher
  \/ Lookup /\ UNCHANGED notMatcher

SpecMatcher == InitMatcher /\ [][NextMatcher]_vars

\* Any number of getZoneFromZip calls of both variants, overlapping the load
InitResolver ==
  /\ ResolverStart
  /\ MatcherIdle
  /\ DriverIdle
  /\ AnalysisIdle
  /\ WidgetIdle
  /\ SearchIdle
  /\ TestIdle
  /\ ShopIdle

NextResolver ==
  \/ \E z \in Zips : GetZoneFromZipStatic(z) /\ UNCHANGED notResolver
  \/ \E z \in Zips : GetZoneFromZip(z) /\ UNCHANGED notResolver
  \/ ScriptOnload /\ UNCHANGED notResolver
  \/ ScriptOnerror /\ UNCHANGED notResolver
  \/ \E i \in DOMAIN zCalls : ResumeGetZoneFromZip(i) /\ UNCHANGED notResolver

SpecResolver == InitResolver /\ [][NextResolver]_vars

\* analyzeZoneFormat on every zones value
InitAnalysis ==
  /\ AnalysisStart
  /\ MatcherIdle
  /\ ResolverIdle
  /\ DriverIdle
  /\ WidgetIdle
  /\ SearchIdle
  /\ TestIdle
  /\ ShopIdle

NextAnalysis ==
  \/ Analyze /\ UNCHANGED notAnalysis
  \/ NeedsCheck /\ UNCHANGED notAnalysis
  \/ Normalize /\ UNCHANGED notAnalysis
  \/ CheckAgain /\ UNCHANGED notAnalysis

SpecAnalysis == InitAnalysis /\ [][NextAnalysis]_vars

\* The zone-selector widget over the lazily loading resolver
InitWidget ==
  /\ WidgetStart
  /\ ResolverStart
  /\ MatcherIdle
  /\ DriverIdle
  /\ AnalysisIdle
  /\ SearchIdle
  /\ TestIdle
  /\ ShopIdle

NextWidget ==
  \/ \E text \in FieldTexts : InputEvent(text) /\ UNCHANGED notWidget
  \/ HandleZipSubmit /\ UNCHANGED notWidgetNorResolver
  \/ \E k \in DOMAIN wSubs : ResumeZipSubmit(k) /\ UNCHANGED notWidget
  \/ ChangeZone /\ UNCHANGED notWidget
  \/ ScriptOnload /\ UNCHANGED notResolver
  \/ ScriptOnerror /\ UNCHANGED notResolver
  \/ \E i \in DOMAIN zCalls : ResumeGetZoneFromZip(i) /\ UNCHANGED notResolver

SpecWidget == InitWidget /\ [][NextWidget]_vars

\* The predictive search drawer under input, open and close events
InitSearch ==
  /\ SearchIdle
  /\ MatcherIdle
  /\ ResolverIdle
  /\ DriverIdle
  /\ AnalysisIdle
  /\ WidgetIdle
  /\ TestIdle
  /\ ShopIdle

NextSearch ==
  \/ Advance /\ UNCHANGED notSearch
  \/ open /\ UNCHANGED notSearch
  \/ close /\ UNCHANGED notSearch
  \/ \E text \in SearchTexts : SearchInput(text) /\ UNCHANGED notSearch
  \/ \E t \in sTimers : TimerFires(t) /\ UNCHANGED notSearch
  \/ \E i \in DOMAIN sFetches, outcome \in {"results", "empty", "failed"} :
       SearchResponse(i, outcome) /\ UNCHANGED notSearch
  \/ \E i \in DOMAIN sFetches : AbortSettles(i) /\ UNCHANGED notSearch

SpecSearch == InitSearch /\ [][NextSearch]_vars

\* One run of the zone lookup test suite
InitTests ==
  /\ TestStart
  /\ MatcherIdle
  /\ ResolverIdle
  /\ DriverIdle
  /\ AnalysisIdle
  /\ WidgetIdle
  /\ SearchIdle
  /\ ShopIdle

NextTests ==
  \/ LoadData /\ UNCHANGED notTest
  \/ RunTest /\ UNCHANGED notTest
  \/ CompareTest /\ UNCHANGED notTest
  \/ TestExit /\ UNCHANGED notTest

SpecTests == InitTests /\ [][NextTests]_vars

\* The shop-by-zone page with the zone selector on it
InitShop ==
  /\ ShopStart
  /\ MatcherIdle
  /\ ResolverIdle
  /\ DriverIdle
  /\ AnalysisIdle
  /\ WidgetIdle
  /\ SearchIdle
  /\ TestIdle

NextShop ==
  \/ ShopInit /\ UNCHANGED notShop
  \/ \E value \in ShopZips, available \in BOOLEAN :
       ShopLookupZip(value, available) /\ UNCHANGED notShop
  \/ ShopClearZone /\ UNCHANGED notShop
  \/ \E value \in ShopZips : ZoneSelectorSubmit(value) /\ UNCHANGED notShop
  \/ ZoneSelectorChange /\ UNCHANGED notShop

SpecShop == InitShop /\ [][NextShop]_vars

\* The sync driver and the audit driver, from start to exit
InitDrivers ==
  /\ DriverStart({"sync", "audit"})
  /\ MatcherIdle
  /\ ResolverIdle
  /\ AnalysisIdle
  /\ WidgetIdle
  /\ SearchIdle
  /\ TestIdle
  /\ ShopIdle

NextDrivers ==
  \/ ValidateConfig /\ UNCHANGED notDriver
  \/ FetchPage /\ UNCHANGED notDriver
  \/ \E n \in 0..MaxProducts : PageArrives(n) /\ UNCHANGED notDriver
  \/ \E f \in ApiFailures : PageFails(f) /\ UNCHANGED notDriver
  \/ ProcessProduct /\ UNCHANGED notDriver
  \/ WriteSucceeds /\ UNCHANGED notDriver
  \/ \E f \in WriteFailures : WriteFails(f) /\ UNCHANGED notDriver
  \/ DelayElapsed /\ UNCHANGED notDriver
  \/ SaveReport /\ UNCHANGED notDriver
  \/ AuditClassify /\ UNCHANGED notDriver

SpecDrivers == InitDrivers /\ [][NextDrivers]_vars

----------------------------------------------------------------------------
(* Properties of the zone resolver                                         *)

\* The prefix table a call looks its ZIP up in: the built-in one, or the one
\* the script left on window (no key at all when it left none)
TableOf(call) ==
  IF call.which = "static" THEN ZONE_DATA_zipToZone
  ELSE IF ~zAsset.fails /\ windowTable(zAsset) # None THEN windowTable(zAsset)[1]
  ELSE {}

AssetUnavailable == zAsset.fails \/ windowTable(zAsset) = None

FirstThree(call) == Text(SubSeq(call.zip, 1, 3))

\* C1: a getZoneFromZip call on a ZIP whose first three characters are not
\* a key of the prefix table returns null and never raises; a call of the
\* lazily loading variant also resolves to null, never rejecting, when the
\* prefix-table asset is unavailable.
C1_UnknownPrefixNull ==
  \A i \in DOMAIN zCalls :
    /\ zCalls[i].state # "rejected"
    /\ (zCalls[i].state = "fulfilled" /\ FirstThree(zCalls[i]) \notin ObjectKeys(TableOf(zCalls[i])))
         => zCalls[i].value = None
    /\ (zCalls[i].state = "fulfilled" /\ zCalls[i].which = "lazy" /\ AssetUnavailable)
         => zCalls[i].value = None

\* A built-in lookup of an unknown prefix and a lazy lookup whose script
\* failed to load have both returned null
C1_Witness ==
  /\ \E i \in DOMAIN zCalls :
       /\ zCalls[i].which = "static"
       /\ FirstThree(zCalls[i]) \notin ObjectKeys(ZONE_DATA_zipToZone)
       /\ zCalls[i].state = "fulfilled" /\ zCalls[i].value = None
  /\ \E i \in DOMAIN zCalls :
       /\ zCalls[i].which = "lazy"
       /\ zAsset.fails
       /\ zCalls[i].state = "fulfilled" /\ zCalls[i].value = None

\* C2: two lookups of ZIPs with the same first three characters in the same
\* table return the same zone code and temperature range, or null both.
C2_PrefixOnly ==
  \A i, j \in DOMAIN zCalls :
    ( /\ zCalls[i].state = "fulfilled"
      /\ zCalls[j].state = "fulfilled"
      /\ zCalls[i].which = zCalls[j].which
      /\ SubSeq(zCalls[i].zip, 1, 3) = SubSeq(zCalls[j].zip, 1, 3) )
    => zCalls[i].value = zCalls[j].value

\* Two different ZIPs of one prefix both resolved to a zone with its range
C2_Witness ==
  \E i, j \in DOMAIN zCalls :
    /\ zCalls[i].zip # zCalls[j].zip
    /\ SubSeq(zCalls[i].zip, 1, 3) = SubSeq(zCalls[j].zip, 1, 3)
    /\ zCalls[i].which = "lazy" /\ zCalls[j].which = "lazy"
    /\ zCalls[i].state = "fulfilled" /\ zCalls[j].state = "fulfilled"
    /\ zCalls[i].value # None
    /\ zCalls[i].value[1].range # None
    /\ zCalls[j].value = zCalls[i].value

----------------------------------------------------------------------------
(* Properties of the matcher                                               *)

Range(seq) == {seq[i] : i \in DOMAIN seq}

\* The database entries whose name is the plant name
KeysEqual(plants, name) == {i \in DOMAIN plants : plants[i].name = name}

\* The entries whose name (of 5 characters or more) occurs in the plant name
KeysWithin(plants, name) ==
  {i \in DOMAIN plants : Len(plants[i].name) >= 5 /\ includes(name, plants[i].name)}

\* The entries whose name the plant name (of 6 characters or more) occurs in
KeysAround(plants, name) ==
  {i \in DOMAIN plants : Len(name) >= 6 /\ includes(plants[i].name, name)}

\* The space-separated words of the plant name that are allow-listed
AllowedWords(name) == Range(split(name)) \cap botanicalTerms

\* The allow-listed words of more than 4 characters that some key contains
BotanicalWords(plants, name) ==
  {w \in AllowedWords(name) :
     Len(w) > 4 /\ \E i \in DOMAIN plants : includes(plants[i].name, w)}

\* The match type of the lookup made, "null" for a null result
LookupType == IF mLookup = None THEN "null" ELSE mLookup[1].matchType

\* C3: lookupZones returns the result of the first of the tiers exact,
\* contains, partial, botanical that hits, or null when none hits; a plant
\* name that is literally a database key returns matchType 'exact' with that
\* key's zones, whatever other keys contain it or are contained in it.
C3_TierOrder ==
  mPc = "looked" =>
    /\ \A i \in KeysEqual(mPlants, mPlantName) :
         /\ LookupType = "exact"
         /\ mLookup[1].zones = Some(mPlants[i].zones)
    /\ LookupType # "exact" =>
         LookupType =
           IF KeysWithin(mPlants, mPlantName) # {} THEN "contains"
           ELSE IF KeysAround(mPlants, mPlantName) # {} THEN "partial"
           ELSE IF BotanicalWords(mPlants, mPlantName) # {} THEN "botanical"
           ELSE "null"

\* A name that is a key while another key of the database is contained in it
\* and a third contains it, answered 'exact'
C3_Witness ==
  /\ mPc = "looked"
  /\ KeysEqual(mPlants, mPlantName) # {}
  /\ \E i \in KeysWithin(mPlants, mPlantName) \cup KeysAround(mPlants, mPlantName) :
       mPlants[i].name # mPlantName
  /\ LookupType = "exact"

\* C4: with no exact match and keys of 5 characters or more occurring in the
\* plant name, the contains tier returns the longest of them, and among keys
\* of equal length the earliest in database order, with that key's zones; it
\* never returns a key shorter than 5 characters.
C4_LongestContained ==
  mPc = "looked" =>
    /\ (KeysEqual(mPlants, mPlantName) = {} /\ KeysWithin(mPlants, mPlantName) # {}) =>
         \E b \in KeysWithin(mPlants, mPlantName) :
           /\ \A c \in KeysWithin(mPlants, mPlantName) :
                \/ Len(mPlants[b].name) > Len(mPlants[c].name)
                \/ Len(mPlants[b].name) = Len(mPlants[c].name) /\ b <= c
           /\ LookupType = "contains"
           /\ mLookup[1].matchedKey = Some(mPlants[b].name)
           /\ mLookup[1].zones = Some(mPlants[b].zones)
    /\ LookupType = "contains" => Len(mLookup[1].matchedKey[1]) >= 5

\* A contains match chosen among two keys that both occur in the plant name
C4_Witness ==
  /\ mPc = "looked"
  /\ LookupType = "contains"
  /\ Cardinality(KeysWithin(mPlants, mPlantName)) >= 2

\* C5: a botanical match carries a matchedWord that is a space-separated
\* word of the plant name and is on the allow-list, and a matchedKey that
\* contains that word; a name with no exact, contains or partial hit and no
\* allow-listed word returns null.
C5_BotanicalAllowListed ==
  mPc = "looked" =>
    /\ LookupType = "botanical" =>
         /\ mLookup[1].matchedWord # None
         /\ mLookup[1].matchedWord[1] \in AllowedWords(mPlantName)
         /\ includes(mLookup[1].matchedKey[1], mLookup[1].matchedWord[1])
    /\ ( /\ KeysEqual(mPlants, mPlantName) = {}
         /\ KeysWithin(mPlants, mPlantName) = {}
         /\ KeysAround(mPlants, mPlantName) = {}
         /\ AllowedWords(mPlantName) = {} ) => LookupType = "null"

\* A botanical match on the title of a database that holds a longer key
C5_Witness ==
  /\ mPc = "looked"
  /\ LookupType = "botanical"
  /\ mLookup[1].matchedWord[1] \in botanicalTerms

\* C6: extractPlantName applied to its own result returns that result.
C6_Idempotent == mPc = "again" => mAgain = mPlantName

----------------------------------------------------------------------------
(* Properties of the sync and audit drivers                                *)

\* How many products of the list the loop has finished classifying
Classified ==
  CASE pc = "loop" -> idx - 1
    [] pc = "awaitWrite" -> idx - 1
    [] pc = "delay" -> idx
    [] pc = "done" -> Len(products)
    [] OTHER -> IF idx = 0 THEN 0 ELSE idx - 1

\* The results of a run without --dry-run over the first n products in which
\* every write succeeds
RECURSIVE SuccessfulRun(_, _)
SuccessfulRun(ps, n) ==
  IF n = 0 THEN EmptyResults
  ELSE LET step == Step([CONFIG EXCEPT !.dryRun = FALSE], ps[n])
       IN IF step.branch = "write"
          THEN AfterWrite(CONFIG, SuccessfulRun(ps, n - 1), ps[n], step)
          ELSE Push(SuccessfulRun(ps, n - 1), step.list, step.entry)

Mutations == {i \in DOMAIN requests : requests[i].kind = "mutation"}
FailedWrites == {i \in Mutations : requests[i].outcome \in WriteFailures}

\* C7: with --dry-run no mutation is ever sent (only product-listing
\* queries), every product is classified exactly as in a run without
\* --dry-run in which every write succeeds, and the report saved carries
\* dryRun = true.
C7_DryRun ==
  (driver = "sync" /\ results # <<>>) =>
    /\ CONFIG.dryRun =>
         /\ \A i \in DOMAIN requests : requests[i].kind = "query"
         /\ results = SuccessfulRun(products, Classified)
         /\ report # None =>
              /\ report[1].dryRun = TRUE
              /\ report[1].details = SuccessfulRun(products, Len(products))
    /\ (~CONFIG.dryRun /\ FailedWrites = {}) =>
         results = SuccessfulRun(products, Classified)

\* A finished dry run that classified one product as updated and one as
\* normalized and saved its report
C7_Witness ==
  /\ driver = "sync"
  /\ CONFIG.dryRun
  /\ pc = "done"
  /\ Len(results.updated) = 1
  /\ Len(results.normalized) = 1
  /\ report # None
  /\ requests # <<>>

\* C8: a product whose write fails is appended to errors with the failure
\* message, is added to neither updated nor normalized, is attempted exactly
\* once, and every later product of the list is still processed.
C8_WriteFailureContinues ==
  driver = "sync" =>
    \A r \in FailedWrites :
      /\ \E e \in DOMAIN results.errors :
           /\ results.errors[e].title = products[requests[r].product].title
           /\ results.errors[e].error = requests[r].outcome
      /\ Len(results.errors) = Cardinality(FailedWrites)
      /\ Len(results.updated) + Len(results.normalized)
           = Cardinality({i \in Mutations : requests[i].outcome = "ok"})
      /\ Cardinality({i \in Mutations : requests[i].product = requests[r].product}) = 1
      /\ exitCode # None => Classified = Len(products)

\* C9: an error raised while one product is processed in the sync loop is
\* caught there and recorded in errors; it does not halt the run, and the
\* report is still written.
C9_ProductErrorsCaught ==
  (driver = "sync" /\ idx >= 1) =>
    /\ pc # "exited"
    /\ exitCode # None => (report # None /\ Classified = Len(products))

\* The credential environment variables that are not set
MissingNames == {"SHOPIFY_STORE_DOMAIN", "SHOPIFY_ADMIN_API_TOKEN"} \ env

\* C10: with a required credential variable missing, either driver ends with
\* exit code 1 having listed the missing names and issued no request.
C10_MissingCredentialFatal ==
  (driver \in {"sync", "audit"} /\ MissingNames # {}) =>
    /\ requests = <<>>
    /\ pc \in {"main", "exited"}
    /\ pc = "exited" =>
         /\ exitCode = Some(1)
         /\ {stderr[i] : i \in DOMAIN stderr} \cap {"SHOPIFY_STORE_DOMAIN", "SHOPIFY_ADMIN_API_TOKEN"}
              = MissingNames

\* The sync driver has exited with code 1 over a missing access token
C10_Witness ==
  /\ driver = "sync"
  /\ env = {"SHOPIFY_STORE_DOMAIN"}
  /\ pc = "exited"
  /\ exitCode = Some(1)
  /\ requests = <<>>

\* The product-listing queries whose page failed
FailedPages ==
  {i \in DOMAIN requests : requests[i].kind = "query" /\ requests[i].outcome \in ApiFailures}

\* C11: when a page fetch fails the sync run ends with exit code 1 having
\* issued no write, classified no product and saved no report; and no write
\* is ever issued before the last page has been fetched.
C11_PageFailureAborts ==
  driver = "sync" =>
    /\ FailedPages # {} =>
         /\ pc = "exited"
         /\ exitCode = Some(1)
         /\ Mutations = {}
         /\ results = <<>>
         /\ report = None
    /\ Mutations # {} =>
         /\ served = Len(catalog)
         /\ Len(products) = Len(catalog)
         /\ \A i \in DOMAIN requests : requests[i].kind = "query" => requests[i].outcome = "ok"

\* The second page of a sync run failed after a first page brought a product
C11_Witness ==
  /\ driver = "sync"
  /\ FailedPages # {}
  /\ Len(products) >= 1
  /\ Len(requests) = 2
  /\ pc = "exited"

----------------------------------------------------------------------------
(* Properties of analyzeZoneFormat                                         *)

\* Whether an element of a zones list contains the substring 'zone',
\* whatever the letter case; a value that is not a string does not
ContainsZone(z) == z.t = "str" /\ includes(toLowerCase(z.v), <<"z","o","n","e">>)

\* C12: analyzeZoneFormat returns 'none' iff the list is absent or empty;
\* otherwise 'mixed' iff some element contains 'zone' and some element does
\* not, 'old' iff every element contains it, 'new' iff no element contains it.
C12_Classification ==
  aPc = "analyzed" =>
    LET empty == aZones = None \/ aZones = Some(<<>>)
        zones == aZones[1]
        some == \E i \in DOMAIN zones : ContainsZone(zones[i])
        lacks == \E i \in DOMAIN zones : ~ContainsZone(zones[i])
    IN /\ aFormat \in {"none", "old", "new", "mixed"}
       /\ aFormat = "none" <=> empty
       /\ ~empty =>
            /\ aFormat = "mixed" <=> (some /\ lacks)
            /\ aFormat = "old" <=> ~lacks
            /\ aFormat = "new" <=> ~some

\* The entries of all five result lists, and how many carry a given title
ResultLists == {"updated", "normalized", "skipped", "notFound", "errors"}
EntriesTitled(title) ==
  {<<list, i>> \in ResultLists \X (1..Len(products) + 1) :
     i \in DOMAIN results[list] /\ results[list][i].title = title}

\* C13: when a sync run completes, every fetched product is in exactly one
\* of the five result lists, the five report counts sum to summary.total, and
\* the report is the one written after the last product was processed.
C13_ExactlyOneList ==
  driver = "sync" =>
    /\ report # None => (pc = "done" /\ Classified = Len(products))
    /\ pc = "done" =>
         /\ \A p \in DOMAIN products :
              Cardinality(EntriesTitled(products[p].title))
                = Cardinality({q \in DOMAIN products : products[q].title = products[p].title})
         /\ report = Some(Report(CONFIG, products, results))
         /\ report[1].summary.total = Len(products)
         /\ report[1].summary.updated + report[1].summary.normalized
              + report[1].summary.skipped + report[1].summary.notFound
              + report[1].summary.errors = report[1].summary.total

\* The products of the list that already have zones, the writes issued for
\* a product, and whether the normalize branch applies to it
HasZones == {p \in DOMAIN products :
               products[p].existingZones # None /\ Len(products[p].existingZones[1]) > 0}
WritesFor(p) == {r \in Mutations : requests[r].product = p}
ToNormalize(p) ==
  /\ CONFIG.normalize
  /\ \E i \in DOMAIN products[p].existingZones[1] :
       ContainsZone(products[p].existingZones[1][i])

\* The products the loop is done with: those it classified, and the one at
\* which the run ended
Handled ==
  {p \in DOMAIN products : p <= Classified \/ (pc = "exited" /\ idx = p)}

\* C19: a product that already has zones is written only when --normalize is
\* set and some element contains 'zone', and every write for it carries
\* exactly normalizeZoneFormat(existingZones); once the loop is done with
\* such a product it is in normalized, and every other product with zones is
\* in skipped and was never written.
C19_ExistingZones ==
  driver = "sync" =>
    \A p \in HasZones :
      LET zones == products[p].existingZones[1]
          normalizedZones == normalizeZoneFormat(zones)
      IN /\ \A r \in WritesFor(p) :
              /\ ToNormalize(p)
              /\ ~normalizedZones.threw
              /\ requests[r].zones = Some(normalizedZones.value)
         /\ p \in Handled =>
              IF ToNormalize(p)
              THEN /\ ~normalizedZones.threw
                   /\ \E e \in DOMAIN results.normalized :
                        results.normalized[e] =
                          [title |-> products[p].title, oldZones |-> zones,
                           newZones |-> normalizedZones.value]
                   /\ Len(results.normalized)
                        = Cardinality({q \in HasZones \cap Handled : ToNormalize(q)})
              ELSE /\ WritesFor(p) = {}
                   /\ \E e \in DOMAIN results.skipped :
                        /\ results.skipped[e].title = products[p].title
                        /\ results.skipped[e].existingZones = zones
                   /\ Len(results.skipped)
                        = Cardinality({q \in HasZones \cap Handled : ~ToNormalize(q)})

\* The products of the list without zones, what the matcher finds for a
\* product, and the entries main pushes for it
NoZones == DOMAIN products \ HasZones
Matcher(p) == MatchOf[products[p].title].lookup
InNotFound(p) ==
  \E e \in DOMAIN results.notFound :
    results.notFound[e] = [title |-> products[p].title,
                           extractedName |-> MatchOf[products[p].title].plantName]
InUpdated(p) ==
  \E e \in DOMAIN results.updated :
    results.updated[e] = [title |-> products[p].title,
                          zones |-> Matcher(p)[1].zones,
                          matchType |-> Matcher(p)[1].matchType,
                          matchedKey |-> Matcher(p)[1].matchedKey]

\* Whether exactly one write was issued for product p, carrying the
\* matcher's zones, the product being in updated if the write succeeded
OneWrite(p) ==
  /\ Cardinality(WritesFor(p)) = 1
  /\ \A r \in WritesFor(p) :
       /\ requests[r].zones = Matcher(p)[1].zones
       /\ requests[r].outcome = "ok" => InUpdated(p)

\* C20 as stated: a product without zones that the loop has classified is
\* in notFound with no write iff the matcher finds nothing; otherwise exactly
\* one write was issued for it, carrying the matcher's zones, and on success
\* it is in updated with the match type and matched key.
C20_AsStated ==
  driver = "sync" =>
    \A p \in NoZones :
      p <= Classified =>
        /\ (InNotFound(p) /\ WritesFor(p) = {}) <=> (Matcher(p) = None)
        /\ Matcher(p) # None => OneWrite(p)

\* C20, amended: a product without zones that the loop has classified is in
\* notFound with no write iff the matcher finds nothing; otherwise, in a run
\* without --dry-run, exactly one write was issued for it, carrying the
\* matcher's zones, and on success it is in updated with the match type and
\* matched key; with --dry-run no write is issued and it is in updated.
C20_NoZones ==
  driver = "sync" =>
    \A p \in NoZones :
      p <= Classified =>
        /\ (InNotFound(p) /\ WritesFor(p) = {}) <=> (Matcher(p) = None)
        /\ Matcher(p) # None =>
             IF CONFIG.dryRun
             THEN WritesFor(p) = {} /\ InUpdated(p)
             ELSE OneWrite(p)

\* A run without --dry-run has ended with one product written once and in
\* updated, and another in notFound
C20_Witness ==
  /\ driver = "sync"
  /\ ~CONFIG.dryRun
  /\ pc = "done"
  /\ \E p \in NoZones : Matcher(p) # None /\ OneWrite(p) /\ InUpdated(p)
  /\ \E p \in NoZones : Matcher(p) = None /\ InNotFound(p)

\* C21: between any two consecutive write requests of a run the fixed
\* 550 ms delay elapses, whether the earlier write succeeded or failed.
C21_DelayBetweenWrites ==
  driver = "sync" =>
    \A r1, r2 \in Mutations :
      r1 < r2 => requests[r2].at - requests[r1].at >= DelayMs

\* The requests whose response has not arrived
PendingRequests == {i \in DOMAIN requests : requests[i].outcome = "pending"}

\* C22: at every moment of a sync run at most one admin-API request is in
\* flight, and it is the last one issued (a request is issued only once
\* every earlier one has completed or failed); every page query precedes
\* every write, and the writes are issued in the order the products were
\* fetched.
C22_OneRequestInFlight ==
  driver = "sync" =>
    /\ Cardinality(PendingRequests) <= 1
    /\ \A i \in PendingRequests : i = Len(requests)
    /\ \A i, j \in DOMAIN requests :
         (i < j /\ requests[i].kind = "mutation") =>
           /\ requests[j].kind = "mutation"
           /\ requests[i].product < requests[j].product

\* Two pages were fetched, the first write failed, and the second write is
\* in flight
C22_Witness ==
  /\ driver = "sync"
  /\ Cardinality({i \in DOMAIN requests : requests[i].kind = "query"}) = 2
  /\ Cardinality(Mutations) = 2
  /\ FailedWrites # {}
  /\ PendingRequests = {Len(requests)}

----------------------------------------------------------------------------
(* Properties of the zone tables                                           *)

\* The prefix tables the source carries
PrefixTables == {ZONE_DATA_zipToZone, CompiledTable}

\* Whether every zone code of the prefix tables is a key of the
\* temperature-range table
CodesDefined ==
  \A table \in PrefixTables : \A p \in table : p[2] \in ObjectKeys(ZONE_DATA_zones)

\* C14: every zone code that is a value of a ZIP-prefix table is a key of the
\* temperature-range table, so every result of getZoneFromZip that is not
\* null carries the min and max temperatures of its zone.
C14_ZoneCodesDefined ==
  /\ CodesDefined
  /\ \A i \in DOMAIN zCalls :
       (zCalls[i].state = "fulfilled" /\ zCalls[i].value # None) =>
         LET result == zCalls[i].value[1]
         IN /\ result.range # None
            /\ result.range[1].label = result.zone
            /\ result.range[1].min \in Int
            /\ result.range[1].max = result.range[1].min + 5

\* A call of each variant has returned a zone with its temperature range
C14_Witness ==
  /\ \E i \in DOMAIN zCalls :
       /\ zCalls[i].which = "static"
       /\ zCalls[i].state = "fulfilled"
       /\ zCalls[i].value # None
  /\ \E i \in DOMAIN zCalls :
       /\ zCalls[i].which = "lazy"
       /\ zCalls[i].state = "fulfilled"
       /\ zCalls[i].value # None
       /\ zCalls[i].value[1].range # None

----------------------------------------------------------------------------
(* Properties of the zone-selector widget                                  *)

FiveDigits(zipCode) == Len(zipCode) = 5 /\ AllDigit(zipCode, 1, 6)

\* Whether the resolver returned a zone to submission k
ZoneReturned(k) ==
  /\ wSubs[k].call # 0
  /\ zCalls[wSubs[k].call].state = "fulfilled"
  /\ zCalls[wSubs[k].call].value # None

\* C15: a submission saves a zone to local storage and dispatches
\* 'zone:changed' only if the submitted value is exactly five decimal digits
\* and the resolver returns a zone for it; every other submission shows an
\* error, leaves local storage unchanged and dispatches nothing.
C15_SubmissionGuard ==
  /\ \A k \in DOMAIN wSubs :
       /\ wSubs[k].outcome = "saved" => (FiveDigits(wSubs[k].zip) /\ ZoneReturned(k))
       /\ (wSubs[k].outcome # "awaiting" /\ ~(FiveDigits(wSubs[k].zip) /\ ZoneReturned(k)))
            => wSubs[k].outcome \in {"invalid", "notFound"}
  /\ \A e \in DOMAIN wEvents : FiveDigits(wEvents[e].zipCode)
  /\ \A w \in DOMAIN wWrites : FiveDigits(wWrites[w].zipCode)
  /\ wStorage # None => FiveDigits(wStorage[1].zipCode)
  /\ Len(wEvents) = Cardinality({k \in DOMAIN wSubs : wSubs[k].outcome = "saved"})
  /\ Len(wWrites) <= Len(wEvents)

----------------------------------------------------------------------------
(* Properties of the predictive search drawer                              *)

\* C16: whenever an input event occurs or the drawer is closed while a
\* suggestion request is in flight, that request is aborted at that moment.
C16_AbortOnInputOrClose ==
  \A k \in DOMAIN sLog :
    sLog[k].ev \in {"input", "close"} => sLog[k].inflight \subseteq sLog[k].aborted

\* The log entries strictly between j and k
Between(j, k) == {m \in DOMAIN sLog : j < m /\ m < k}

\* C17: at most one debounce timer is pending at any time; a request is
\* issued only when 300 ms have elapsed with no further input event after
\* an input whose trimmed value has at least 2 characters, and it carries
\* that input's query; between two input events at most one request is
\* issued; after a close no request is issued until the next input event.
C17_Debounced ==
  /\ Cardinality({t \in sTimers : t.kind = "debounce"}) <= 1
  /\ \A k \in DOMAIN sLog :
       sLog[k].ev = "request" =>
         \E j \in 1..(k - 1) :
           /\ sLog[j].ev = "input"
           /\ \A m \in Between(j, k) : sLog[m].ev = "open"
           /\ Len(sLog[j].query[1]) >= MIN_QUERY_LENGTH
           /\ sLog[k].query = sLog[j].query
           /\ sLog[k].at - sLog[j].at >= DEBOUNCE_DELAY

\* A burst of two inputs under 300 ms apart was followed by the one request
\* of the last input, and a close has cancelled a pending timer since.
C17_Witness ==
  \E k \in DOMAIN sLog :
    /\ k >= 3
    /\ sLog[k].ev = "request"
    /\ sLog[k - 1].ev = "input"
    /\ sLog[k - 2].ev = "input"
    /\ Len(sLog[k - 2].query[1]) >= MIN_QUERY_LENGTH
    /\ sLog[k - 2].query # sLog[k - 1].query
    /\ sLog[k - 1].at - sLog[k - 2].at < DEBOUNCE_DELAY

----------------------------------------------------------------------------
(* Properties of the zone lookup test suite                                *)

AbortedCompletes ==
  \E i \in DOMAIN sFetches :
    /\ i \in DOMAIN sFetches'
    /\ sFetches[i].state = "aborted"
    /\ sFetches'[i].state = "cancelled"

\* C23: at most one suggestion request is in flight and not aborted at any
\* time; starting a search aborts the request that was in flight before the
\* new fetch is issued; and the completion of an aborted request leaves the
\* displayed state unchanged.
C23_SingleLiveRequest ==
  /\ [](/\ Cardinality(InFlight(sFetches)) <= 1
        /\ \A k \in DOMAIN sLog :
             sLog[k].ev = "request" => sLog[k].inflight \subseteq sLog[k].aborted)
  /\ [][AbortedCompletes => sShown' = sShown]_vars

\* A search superseded a request still in flight, whose aborted fetch has
\* completed since, and the later request has rendered its results
C23_Witness ==
  \E i, j \in DOMAIN sFetches :
    /\ i < j
    /\ sFetches[i].state = "cancelled"
    /\ sFetches[j].state = "results"
    /\ \E k \in DOMAIN sLog : sLog[k].ev = "request" /\ sLog[k].aborted = {i}

\* C24: while the last event handled is an input whose trimmed value is
\* shorter than 2 characters, no suggestion results are displayed: the
\* response to a request issued before that input does not repopulate them.
C24_NoStaleResults ==
  (/\ sLog # <<>>
   /\ sLog[Len(sLog)].ev = "input"
   /\ Len(sLog[Len(sLog)].query[1]) < MIN_QUERY_LENGTH)
    => sShown # "results"

----------------------------------------------------------------------------
(* Properties of the lazy load of the prefix table                         *)

\* The calls of the lazily loading variant
LazyCalls == {i \in DOMAIN zCalls : zCalls[i].which = "lazy"}

\* This step is a getZoneFromZip call of the lazily loading variant
LazyCallMade ==
  /\ Len(zCalls') = Len(zCalls) + 1
  /\ zCalls'[Len(zCalls')].which = "lazy"

\* C25: over any sequence of sequential or overlapping getZoneFromZip calls
\* the prefix-table script is injected at most once; a call made while the
\* load is pending awaits that load; a call made after a successful load
\* answers from the cached table without loading; after a failed load no
\* call injects the script again and every call resolves to null.
C25_LoadedAtMostOnce ==
  /\ [](/\ zInjected <= 1
        /\ (zipDataPromise = "null") = (zInjected = 0)
        /\ zipDataPromise = "pending" =>
             \A i \in LazyCalls : zCalls[i].state = "awaiting"
        /\ zipDataPromise = "rejected" =>
             \A i \in LazyCalls :
               \/ zCalls[i].state = "awaiting"
               \/ zCalls[i].state = "fulfilled" /\ zCalls[i].value = None)
  /\ [][LazyCallMade =>
          /\ zipDataPromise # "null" =>
               zInjected' = zInjected /\ zipDataPromise' = zipDataPromise
          /\ zipDataPromise = "pending" =>
               zCalls'[Len(zCalls')].state = "awaiting"
          /\ zipDataPromise = "resolved" =>
               /\ zCalls'[Len(zCalls')].state = "fulfilled"
               /\ zCalls'[Len(zCalls')].value =
                    zoneFromTable(zipToZoneData[1], zCalls'[Len(zCalls')].zip)]_vars

\* Two calls of the lazily loading variant have resolved to null after the
\* one injected script failed to load
C25_Witness ==
  /\ zInjected = 1
  /\ zipDataPromise = "rejected"
  /\ Cardinality(LazyCalls) >= 2
  /\ \A i \in LazyCalls : zCalls[i].state = "fulfilled" /\ zCalls[i].value = None

----------------------------------------------------------------------------
(* Properties of the shop-by-zone page and the shared local storage        *)

\* C26: after any sequence of save and clear operations of the zone selector
\* and of the shop-by-zone page, the item 'customer_zone' is present exactly
\* when 'rooted_elegance_zone' is, and holds the zone of the saved record.
C26_BadgeKeyInSync ==
  /\ (customer_zone # None) = (rooted_elegance_zone # None)
  /\ rooted_elegance_zone # None => customer_zone[1] = rooted_elegance_zone[1].zone

\* C27: whenever the shop-by-zone page has a selected zone, its number has an
\* entry in tempRanges and selectedTemp is that entry followed by the
\* degree unit.
C27_TempDefined ==
  selectedZone # None =>
    /\ selectedZone[1] # None
    /\ ObjectGet(tempRanges, selectedZone[1][1]) # None
    /\ selectedTemp = Some(ObjectGet(tempRanges, selectedZone[1][1])[1] \o "°F")

----------------------------------------------------------------------------
(* Properties of the normalization of zone lists                           *)

\* C28: normalization reaches a fixed point in one step: the list that
\* normalizeZoneFormat returns never needs normalization, so the next
\* --normalize run does not rewrite the product again.
C28_NormalizedOnce ==
  aAgain # None => aAgain = Some(FALSE)

\* On every zones list needsNormalization of the sync driver is true exactly
\* when analyzeZoneFormat of the audit returns 'old' or 'mixed'
SameLegacyTest ==
  (aNeeds # None /\ aFormat # "idle") =>
    (aNeeds = Some(TRUE) <=> aFormat \in {"old", "mixed"})

\* What the audit reports for product c of the shop, and whether the sync
\* run issued a write for it although it already had zones
AuditFormat(c) ==
  analyzeZoneFormat(fetchedProduct("audit", c, catalog[c]).product.existingZones)
Rewritten(c) == c \in HasZones /\ WritesFor(c) # {}

\* C30: the audit and the sync driver agree on what is legacy format, so a
\* sync run with --normalize whose product listing succeeded has, once it
\* ended, attempted to rewrite exactly the products of the shop that the
\* audit reports as 'old' or 'mixed'.
C30_RewritesLegacy ==
  ( /\ driver = "sync"
    /\ CONFIG.normalize /\ ~CONFIG.dryRun
    /\ requests # <<>> /\ FailedPages = {}
    /\ exitCode # None )
  => \A c \in DOMAIN catalog :
       AuditFormat(c) \in {"old", "mixed"} <=> Rewritten(c)

----------------------------------------------------------------------------
(* Properties of the botanical tier                                        *)

\* The allow-list entries of 4 or fewer characters
ShortTerms == {w \in botanicalTerms : Len(w) <= 4}

\* C29: a botanical match is triggered only by a word of at least 5
\* characters; the allow-list entries of 4 or fewer characters, which are
\* oak, elm, ash, yew, fir, pine, palm and sage, never produce one.
C29_ShortTermsNeverMatch ==
  /\ ShortTerms = { <<"o","a","k">>, <<"e","l","m">>, <<"a","s","h">>,
                    <<"y","e","w">>, <<"f","i","r">>, <<"p","i","n","e">>,
                    <<"p","a","l","m">>, <<"s","a","g","e">> }
  /\ (mPc = "looked" /\ LookupType = "botanical") =>
       /\ Len(mLookup[1].matchedWord[1]) >= 5
       /\ mLookup[1].matchedWord[1] \notin ShortTerms

\* A plant name with the allow-listed word "sage", which a key of the
\* database contains, and no other hit: the lookup returned null
C29_Witness ==
  /\ mPc = "looked"
  /\ \E w \in ShortTerms :
       /\ w \in Range(split(mPlantName))
       /\ \E i \in DOMAIN mPlants : includes(mPlants[i].name, w)
  /\ LookupType = "null"

=============================================================================
